---------------------------- MODULE Spec2Model ----------------------------
(***************************************************************************)
(* The chain accumulator of the routing crate                              *)
(* (src/src/chain/chain_accumulator.rs), the conversion of network events  *)
(* into parsec observations (src/src/chain/network_event.rs) and the       *)
(* Bootstrapping and Joining states of a node                              *)
(* (src/src/states/bootstrapping_peer.rs, joining_peer.rs) as state        *)
(* machines.                                                               *)
(*                                                                         *)
(* The accumulator only stores, copies and compares events, identities,    *)
(* signatures and signature shares; it never computes with them.  They are *)
(* therefore modelled as small sets of opaque values.  An Option<T> is the *)
(* empty set (None) or a singleton (Some(v)); a BTreeMap is a function     *)
(* whose DOMAIN is its key set; a BTreeSet is a set.                       *)
(***************************************************************************)
EXTENDS Integers, FiniteSets, Sequences, TLC

\* ----------------------------------------------------------- first records
\* The record of the last call on the accumulator before any call, and of
\* the last event a node handled before any event.
NoCall == [op |-> "default"]
NotHandled == [handler |-> "new"]

\* ------------------------------------------------------------------ bounds
\* Number of identities that sign proofs or call reset_accumulator.
NumIds == 2

\* -------------------------------------------------------------- value sets
\* AccumulatingEvent values: the two events of the accumulator's unit tests
\* (test_data_random_key), compared only for equality.
AccumulatingEvent == {"OurMerge", "SectionInfo"}
\* PublicId values.
PublicId == 1..NumIds
\* Signature values of a Proof.
Signature == {"sig"}
\* SectionInfoSigPayload values (public key share and signature share).
SectionInfoSigPayload == {"share_a", "share_b"}

\* Option<T>: None is {}, Some(v) is {v}.
None == {}
Some(v) == {v}
Option(S) == {None} \cup {Some(v) : v \in S}
Unwrap(o) == CHOOSE v \in o : TRUE

\* Proof { pub_id, sig }.
Proof == [pub_id : PublicId, sig : Signature]

\* BTreeMap helpers: insert replaces the value of an existing key.
MapInsert(m, k, v) == [x \in (DOMAIN m) \cup {k} |-> IF x = k THEN v ELSE m[x]]
MapRemove(m, k) == [x \in (DOMAIN m) \ {k} |-> m[x]]
MapGet(m, k) == IF k \in DOMAIN m THEN Some(m[k]) ELSE None
EmptyMap == [x \in {} |-> x]

\* ProofSet { sigs: BTreeMap<PublicId, Signature> }: every ProofSet value.
ProofSet == UNION {[D -> Signature] : D \in SUBSET PublicId}

\* ProofSet::add_proof: record the signature of proof.pub_id, replacing an
\* earlier one; true iff the signer was not present before.
ProofSet_add_proof(sigs, proof) ==
    [sigs |-> MapInsert(sigs, proof.pub_id, proof.sig),
     new  |-> proof.pub_id \notin DOMAIN sigs]

\* ProofSet::contains_id.
ProofSet_contains_id(sigs, id) == id \in DOMAIN sigs

\* ------------------------------------------------------- AccumulatingProof
AccumulatingProof_default == [parsec_proofs |-> EmptyMap, sig_shares |-> EmptyMap]

from_proof_set(parsec_proofs) ==
    [parsec_proofs |-> parsec_proofs, sig_shares |-> EmptyMap]

\* Mutant of AccumulatingProof::add_proof: `new_share || new_proof`.
AccumulatingProof_add_proof_or(self, proof, info_sig) ==
    LET new_share == IF info_sig = None
                     THEN TRUE
                     ELSE proof.pub_id \notin DOMAIN self.sig_shares
        sig_shares == IF info_sig = None
                      THEN self.sig_shares
                      ELSE MapInsert(self.sig_shares, proof.pub_id, Unwrap(info_sig))
        added == ProofSet_add_proof(self.parsec_proofs, proof)
    IN  [self   |-> [parsec_proofs |-> added.sigs, sig_shares |-> sig_shares],
         result |-> new_share \/ added.new]

\* Mutant of AccumulatingProof::add_proof: an existing share is kept
\* (entry(pub_id).or_insert(share) instead of insert).
AccumulatingProof_add_proof_keeps_share(self, proof, info_sig) ==
    LET new_share == IF info_sig = None
                     THEN TRUE
                     ELSE proof.pub_id \notin DOMAIN self.sig_shares
        sig_shares == IF info_sig = None \/ ~new_share
                      THEN self.sig_shares
                      ELSE MapInsert(self.sig_shares, proof.pub_id, Unwrap(info_sig))
        added == ProofSet_add_proof(self.parsec_proofs, proof)
    IN  [self   |-> [parsec_proofs |-> added.sigs, sig_shares |-> sig_shares],
         result |-> new_share /\ added.new]

\* AccumulatingProof::add_proof: the updated bundle and the returned bool
\* (false if a share or a proof was replaced).
AccumulatingProof_add_proof(self, proof, info_sig) ==
    LET new_share == IF info_sig = None
                     THEN TRUE
                     ELSE proof.pub_id \notin DOMAIN self.sig_shares
        sig_shares == IF info_sig = None
                      THEN self.sig_shares
                      ELSE MapInsert(self.sig_shares, proof.pub_id, Unwrap(info_sig))
        added == ProofSet_add_proof(self.parsec_proofs, proof)
    IN  [self   |-> [parsec_proofs |-> added.sigs, sig_shares |-> sig_shares],
         result |-> new_share /\ added.new]

into_sig_shares(self) == self.sig_shares

\* ------------------------------------------------------------ NetworkEvent
\* AccumulatingEvent::into_network_event.
into_network_event(event) ==
    [payload |-> event, signature |-> None]

\* AccumulatingEvent::into_network_event_with.
into_network_event_with(event, signature) ==
    [payload |-> event, signature |-> signature]

\* Every NetworkEvent value handed to into_obs: one payload per variant of
\* AccumulatingEvent (the variants that name a peer once per identity), with
\* and without a signature.  The argument of a variant is an Option: the
\* peer for the variants that name one, None for the others.
ObsPayload ==
    {[variant |-> v, arg |-> Some(id)] :
        v \in {"AddElder", "RemoveElder", "Online", "Offline"}, id \in PublicId}
    \cup
    {[variant |-> v, arg |-> None] :
        v \in {"OurMerge", "NeighbourMerge", "SectionInfo", "TheirKeyInfo",
               "AckMessage", "SendAckMessage", "ParsecPrune", "Relocate", "User"}}

ObsNetworkEvent == [payload : ObsPayload, signature : Option(SectionInfoSigPayload)]

\* Mutant of into_obs: the opaque payload is rebuilt from the payload alone
\* (into_network_event), without the signature.
into_obs_drops_signature(self) ==
    [result |-> "Ok",
     value  |-> CASE self.payload.variant = "AddElder" ->
                       [obs |-> "Add", peer_id |-> Unwrap(self.payload.arg),
                        related_info |-> <<>>]
                  [] self.payload.variant = "RemoveElder" ->
                       [obs |-> "Remove", peer_id |-> Unwrap(self.payload.arg),
                        related_info |-> <<>>]
                  [] OTHER ->
                       [obs |-> "OpaquePayload",
                        event |-> into_network_event(self.payload)]]

\* NetworkEvent::into_obs: the parsec Observation, always inside Ok.
into_obs(self) ==
    [result |-> "Ok",
     value  |-> CASE self.payload.variant = "AddElder" ->
                       [obs |-> "Add", peer_id |-> Unwrap(self.payload.arg),
                        related_info |-> <<>>]
                  [] self.payload.variant = "RemoveElder" ->
                       [obs |-> "Remove", peer_id |-> Unwrap(self.payload.arg),
                        related_info |-> <<>>]
                  [] OTHER ->
                       [obs |-> "OpaquePayload", event |-> self]]

\* ------------------------------------------------ node lifecycle: values
MaxContacts == 2
MaxToken == 4
MaxKey == 2

BOOTSTRAP_TIMEOUT == 20
JOIN_TIMEOUT == 120
MAX_JOIN_ATTEMPTS == 3

\* The addresses of two peers.
SocketAddr == {"peer_a", "peer_b"}

\* NodeInfo of the link layer; the mock builds it with an empty certificate.
ConnectionInfo == [peer_addr : SocketAddr, peer_cert_der : {<<>>}]

\* Vec<ConnectionInfo> of at most MaxContacts entries.
ConnectionInfos == UNION {[1..n -> ConnectionInfo] : n \in 0..MaxContacts}

\* One-bit names; a prefix is empty or one bit long.
XorName == {"0", "1"}
Prefix == {"", "0", "1"}

Prefix_matches(prefix, name) == prefix = "" \/ prefix = name

\* An identity: its name and its key pair (numbered in order of generation).
FullId == [name : XorName, key : 1..MaxKey]

\* FullId::new(): a new key pair, any name.
FullId_new(old) == {[name |-> n, key |-> old.key + 1] : n \in XorName}

\* FullId::within_range(prefix.range_inclusive()): a new key pair whose name
\* lies in the prefix.
FullId_within_range(old, prefix) ==
    {id \in FullId_new(old) : Prefix_matches(prefix, id.name)}

\* The content of SignedRelocateDetails that the states read.
SignedRelocateDetails == [destination : XorName]

\* The transitions a handler returns.
Stay == [t |-> "Stay"]
Terminate == [t |-> "Terminate"]
Rebootstrap == [t |-> "Rebootstrap"]
IntoJoining(conn_infos, relocate_payload) ==
    [t |-> "IntoJoining", conn_infos |-> conn_infos,
     relocate_payload |-> relocate_payload]

\* ----------------------------------------------------- the collaborators
\* The field log of a state is the record of the calls the running handler
\* made on the link layer (bootstrap, connect_to, disconnect_from, send), on
\* the timer (schedule) and on the outbox (send_event), in order.
Log(self, entry) == [self EXCEPT !.log = Append(@, entry)]

\* Timer::schedule: hands out the next token.
Timer_schedule(self, duration) ==
    [Log(self, [op |-> "schedule", duration |-> duration, token |-> self.timer])
        EXCEPT !.timer = @ + 1]

\* Base::send_direct_message: one message to dst over the link layer.
send_direct_message(self, dst, msg) ==
    Log(self, [op |-> "send", dst |-> dst, msg |-> msg])

\* PeerMap, keyed by address.
PeerMap_connect(peer_map, conn_info) ==
    {c \in peer_map : c.peer_addr # conn_info.peer_addr} \cup {conn_info}

PeerMap_disconnect(peer_map, peer_addr) ==
    {c \in peer_map : c.peer_addr # peer_addr}

\* service_mut().disconnect_from(peer_addr) for every address of a set, in
\* some order.
RECURSIVE disconnect_from_all(_, _)
disconnect_from_all(self, addrs) ==
    IF addrs = {} THEN self
    ELSE LET a == CHOOSE x \in addrs : TRUE
         IN  disconnect_from_all(
                 Log(self, [op |-> "disconnect_from", peer_addr |-> a]),
                 addrs \ {a})

\* service_mut().connect_to(conn_info) for every entry of a Vec, in order.
RECURSIVE connect_to_all(_, _)
connect_to_all(self, conn_infos) ==
    IF conn_infos = <<>> THEN self
    ELSE connect_to_all(
             Log(self, [op |-> "connect_to", node_info |-> Head(conn_infos)]),
             Tail(conn_infos))

\* ------------------------------------------------------ BootstrappingPeer
\* BootstrappingPeer::new; network_service is the call record so far.
BootstrappingPeer_new(network_service, full_id, timer) ==
    [state                |-> "BootstrappingPeer",
     nodes_to_await       |-> {},
     bootstrap_connection |-> None,
     full_id              |-> full_id,
     peer_map             |-> {},
     timer                |-> timer,
     relocate_details     |-> None,
     log                  |-> Append(network_service, [op |-> "bootstrap"])]

\* Mutant of send_bootstrap_request: the destination is always the own name.
send_bootstrap_request_own_name(self, dst) ==
    LET s1 == [self EXCEPT !.nodes_to_await = @ \ {dst.peer_addr}]
    IN  IF s1.bootstrap_connection # None
        THEN IF Unwrap(s1.bootstrap_connection).conn_info # dst
             THEN Log(s1, [op |-> "disconnect_from", peer_addr |-> dst.peer_addr])
             ELSE s1
        ELSE LET token == s1.timer
                 s2 == Timer_schedule(s1, BOOTSTRAP_TIMEOUT)
                 s3 == [s2 EXCEPT !.bootstrap_connection =
                            Some([conn_info |-> dst, token |-> token])]
                 destination == s3.full_id.name
                 s4 == send_direct_message(s3, dst,
                           [type |-> "BootstrapRequest",
                            destination |-> destination])
             IN  [s4 EXCEPT !.peer_map = PeerMap_connect(@, dst)]

send_bootstrap_request(self, dst) ==
    LET s1 == [self EXCEPT !.nodes_to_await = @ \ {dst.peer_addr}]
    IN  IF s1.bootstrap_connection # None
        THEN IF Unwrap(s1.bootstrap_connection).conn_info # dst
             THEN Log(s1, [op |-> "disconnect_from", peer_addr |-> dst.peer_addr])
             ELSE s1
        ELSE LET token == s1.timer
                 s2 == Timer_schedule(s1, BOOTSTRAP_TIMEOUT)
                 s3 == [s2 EXCEPT !.bootstrap_connection =
                            Some([conn_info |-> dst, token |-> token])]
                 destination ==
                     IF s3.relocate_details # None
                     THEN Unwrap(s3.relocate_details).destination
                     ELSE s3.full_id.name
                 s4 == send_direct_message(s3, dst,
                           [type |-> "BootstrapRequest",
                            destination |-> destination])
             IN  [s4 EXCEPT !.peer_map = PeerMap_connect(@, dst)]

RECURSIVE send_bootstrap_requests(_, _)
send_bootstrap_requests(self, conn_infos) ==
    IF conn_infos = <<>> THEN self
    ELSE send_bootstrap_requests(
             send_bootstrap_request(self, Head(conn_infos)), Tail(conn_infos))

\* Mutant of BootstrappingPeer::relocate: only the first contact is handled,
\* the others stay awaited.
BootstrappingPeer_relocate_first_only(network_service, full_id, timer, conn_infos, relocate_details) ==
    send_bootstrap_requests(
        [state                |-> "BootstrappingPeer",
         nodes_to_await       |-> {conn_infos[i].peer_addr : i \in DOMAIN conn_infos},
         bootstrap_connection |-> None,
         full_id              |-> full_id,
         peer_map             |-> {},
         timer                |-> timer,
         relocate_details     |-> Some(relocate_details),
         log                  |-> network_service],
        IF conn_infos = <<>> THEN <<>> ELSE <<Head(conn_infos)>>)

\* BootstrappingPeer::relocate.
BootstrappingPeer_relocate(network_service, full_id, timer, conn_infos, relocate_details) ==
    send_bootstrap_requests(
        [state                |-> "BootstrappingPeer",
         nodes_to_await       |-> {conn_infos[i].peer_addr : i \in DOMAIN conn_infos},
         bootstrap_connection |-> None,
         full_id              |-> full_id,
         peer_map             |-> {},
         timer                |-> timer,
         relocate_details     |-> Some(relocate_details),
         log                  |-> network_service],
        conn_infos)

\* RelocatePayload::new(details, new public id, old full id).
RelocatePayload_new(details, new_id, old_full_id) ==
    [details |-> details, new_id |-> new_id, old_id |-> old_full_id]

\* Mutant of join_section: the identity is never replaced.
join_section_keeps_id(self, prefix, conn_infos, new_full_id, payload_ok) ==
    LET old_full_id == self.full_id
        s1 == self
        s2 == [s1 EXCEPT !.relocate_details = None]
    IN  IF s1.relocate_details # None
        THEN IF payload_ok
             THEN [self |-> s2,
                   transition |-> IntoJoining(conn_infos,
                       Some(RelocatePayload_new(Unwrap(s1.relocate_details),
                                                s1.full_id, old_full_id)))]
             ELSE [self |-> s2, transition |-> [t |-> "Err"]]
        ELSE [self |-> s2, transition |-> IntoJoining(conn_infos, None)]

\* Mutant of join_section: the payload binds the new identity as the old one.
join_section_binds_new_id(self, prefix, conn_infos, new_full_id, payload_ok) ==
    LET old_full_id == self.full_id
        s1 == IF ~Prefix_matches(prefix, self.full_id.name)
              THEN [self EXCEPT !.full_id = new_full_id]
              ELSE self
        s2 == [s1 EXCEPT !.relocate_details = None]
    IN  IF s1.relocate_details # None
        THEN IF payload_ok
             THEN [self |-> s2,
                   transition |-> IntoJoining(conn_infos,
                       Some(RelocatePayload_new(Unwrap(s1.relocate_details),
                                                s1.full_id, s1.full_id)))]
             ELSE [self |-> s2, transition |-> [t |-> "Err"]]
        ELSE [self |-> s2, transition |-> IntoJoining(conn_infos, None)]

\* join_section; new_full_id is what FullId::within_range returns when it is
\* called, payload_ok whether RelocatePayload::new succeeds.
join_section(self, prefix, conn_infos, new_full_id, payload_ok) ==
    LET old_full_id == self.full_id
        s1 == IF ~Prefix_matches(prefix, self.full_id.name)
              THEN [self EXCEPT !.full_id = new_full_id]
              ELSE self
        s2 == [s1 EXCEPT !.relocate_details = None]
    IN  IF s1.relocate_details # None
        THEN IF payload_ok
             THEN [self |-> s2,
                   transition |-> IntoJoining(conn_infos,
                       Some(RelocatePayload_new(Unwrap(s1.relocate_details),
                                                s1.full_id, old_full_id)))]
             ELSE [self |-> s2, transition |-> [t |-> "Err"]]
        ELSE [self |-> s2, transition |-> IntoJoining(conn_infos, None)]

\* Mutant of reconnect_to_new_section: the new contacts are awaited but the
\* link layer is not asked to connect to them.
reconnect_to_new_section_no_connect(self, new_conn_infos) ==
    LET s1 == IF self.bootstrap_connection # None
              THEN Log([self EXCEPT !.bootstrap_connection = None],
                       [op |-> "disconnect_from",
                        peer_addr |-> Unwrap(self.bootstrap_connection).conn_info.peer_addr])
              ELSE self
    IN  [s1 EXCEPT !.nodes_to_await =
             {new_conn_infos[i].peer_addr : i \in DOMAIN new_conn_infos}]

reconnect_to_new_section(self, new_conn_infos) ==
    LET s1 == IF self.bootstrap_connection # None
              THEN Log([self EXCEPT !.bootstrap_connection = None],
                       [op |-> "disconnect_from",
                        peer_addr |-> Unwrap(self.bootstrap_connection).conn_info.peer_addr])
              ELSE self
        s2 == [s1 EXCEPT !.nodes_to_await =
                   {new_conn_infos[i].peer_addr : i \in DOMAIN new_conn_infos}]
    IN  connect_to_all(s2, new_conn_infos)

\* Mutant of disconnect_from_bootstrap_proxy: the connection is forgotten but
\* the link layer is not asked to disconnect.
disconnect_from_bootstrap_proxy_only_clears(self) ==
    IF self.bootstrap_connection # None
    THEN [self EXCEPT !.bootstrap_connection = None]
    ELSE self

disconnect_from_bootstrap_proxy(self) ==
    IF self.bootstrap_connection # None
    THEN Log([self EXCEPT !.bootstrap_connection = None],
             [op |-> "disconnect_from",
              peer_addr |-> Unwrap(self.bootstrap_connection).conn_info.peer_addr])
    ELSE self

\* Mutant of rebootstrap: bootstraps again whether or not contacts are awaited.
BootstrappingPeer_rebootstrap_always(self) ==
    Log(disconnect_from_bootstrap_proxy(self), [op |-> "bootstrap"])

BootstrappingPeer_rebootstrap(self) ==
    IF self.nodes_to_await # {}
    THEN self
    ELSE Log(disconnect_from_bootstrap_proxy(self), [op |-> "bootstrap"])

\* Mutant of BootstrappingPeer::handle_timeout: the token is not compared.
BootstrappingPeer_handle_timeout_any_token(self, token) ==
    IF self.bootstrap_connection # None
    THEN [self |-> BootstrappingPeer_rebootstrap(
                       disconnect_from_bootstrap_proxy(self)),
          transition |-> Stay]
    ELSE [self |-> self, transition |-> Stay]

BootstrappingPeer_handle_timeout(self, token) ==
    IF /\ self.bootstrap_connection # None
       /\ Unwrap(self.bootstrap_connection).token = token
    THEN [self |-> BootstrappingPeer_rebootstrap(
                       disconnect_from_bootstrap_proxy(self)),
          transition |-> Stay]
    ELSE [self |-> self, transition |-> Stay]

handle_bootstrapped_to(self, conn_info) ==
    LET s1 == [self EXCEPT !.peer_map = PeerMap_connect(@, conn_info)]
    IN  IF s1.bootstrap_connection = None
        THEN [self |-> send_bootstrap_request(s1, conn_info), transition |-> Stay]
        ELSE [self |-> s1, transition |-> Stay]

\* Mutant of handle_bootstrap_failure: no event is sent to the outbox.
handle_bootstrap_failure_silent(self) ==
    [self |-> self, transition |-> Terminate]

handle_bootstrap_failure(self) ==
    [self |-> Log(self, [op |-> "send_event", event |-> "Terminated"]),
     transition |-> Terminate]

handle_connected_to(self, conn_info) ==
    [self |-> send_bootstrap_request(self, conn_info), transition |-> Stay]

\* Mutant of handle_connection_failure: after the loss of the proxy the link
\* layer is asked to bootstrap while the proxy is still the active target.
handle_connection_failure_keeps_proxy(self, peer_addr) ==
    LET s1 == [self EXCEPT !.nodes_to_await = @ \ {peer_addr},
                           !.peer_map = PeerMap_disconnect(@, peer_addr)]
    IN  IF /\ s1.bootstrap_connection # None
           /\ Unwrap(s1.bootstrap_connection).conn_info.peer_addr = peer_addr
        THEN [self |-> IF s1.nodes_to_await # {} THEN s1
                       ELSE Log(s1, [op |-> "bootstrap"]),
              transition |-> Stay]
        ELSE [self |-> s1, transition |-> Stay]

handle_connection_failure(self, peer_addr) ==
    LET s1 == [self EXCEPT !.nodes_to_await = @ \ {peer_addr},
                           !.peer_map = PeerMap_disconnect(@, peer_addr)]
    IN  IF /\ s1.bootstrap_connection # None
           /\ Unwrap(s1.bootstrap_connection).conn_info.peer_addr = peer_addr
        THEN [self |-> BootstrappingPeer_rebootstrap(
                           disconnect_from_bootstrap_proxy(s1)),
              transition |-> Stay]
        ELSE [self |-> s1, transition |-> Stay]

\* The direct messages a bootstrapping node can be sent.
DirectMessage ==
    {[type |-> "BootstrapResponse", response |-> "Join",
      prefix |-> p, conn_infos |-> cs] : p \in Prefix, cs \in ConnectionInfos}
    \cup
    {[type |-> "BootstrapResponse", response |-> "Rebootstrap",
      conn_infos |-> cs] : cs \in ConnectionInfos}
    \cup
    {[type |-> "BootstrapRequest", destination |-> n] : n \in XorName}

IsJoin(msg) == msg.type = "BootstrapResponse" /\ msg.response = "Join"

BootstrappingPeer_handle_direct_message(self, msg, new_full_id, payload_ok) ==
    IF IsJoin(msg)
    THEN join_section(self, msg.prefix, msg.conn_infos, new_full_id, payload_ok)
    ELSE IF msg.type = "BootstrapResponse" /\ msg.response = "Rebootstrap"
    THEN [self |-> reconnect_to_new_section(self, msg.conn_infos),
          transition |-> Stay]
    ELSE [self |-> self, transition |-> Stay]

\* BootstrappingPeer::handle_hop_message: the message is only logged.
BootstrappingPeer_handle_hop_message(self, msg) ==
    [self |-> self, transition |-> Stay]

\* ------------------------------------------------------------ JoiningPeer
\* Number of distinct routing messages a joining node is handed.
MaxSeen == 2

\* Authority<XorName>: a single node, or a section given by a prefix.
Authority ==
    {[kind |-> "Node", name |-> n] : n \in XorName}
    \cup {[kind |-> "PrefixSection", name |-> "0"]}

Authority_is_single(authority) == authority.kind = "Node"

\* The routing messages of the hop messages a joining node is handed: a
\* NodeApproval from a section to any authority, and a NodeApproval or a
\* user message from the node "0" to a node.
RoutingMessage ==
    {[content |-> "NodeApproval", src |-> [kind |-> "PrefixSection", name |-> "0"],
      dst |-> dst] : dst \in Authority}
    \cup
    {[content |-> c, src |-> [kind |-> "Node", name |-> "0"], dst |-> dst] :
        c \in {"NodeApproval", "UserMessage"},
        dst \in {a \in Authority : Authority_is_single(a)}}

\* Transition::IntoAdult { gen_pfx_info }.
IntoAdult(gen_pfx_info) == [t |-> "IntoAdult", gen_pfx_info |-> gen_pfx_info]

\* RoutingMessageFilter::filter_incoming: the message is remembered; it is
\* new when it was not seen before.
RoutingMessageFilter_filter_incoming(filter, msg) ==
    [filter |-> filter \cup {msg}, is_new |-> msg \notin filter]

\* JoiningPeer::in_authority.
JoiningPeer_in_authority(self, dst) ==
    Authority_is_single(dst) /\ dst.name = self.full_id.name

\* The match pattern of dispatch_routing_message.
IsNodeApproval(msg) ==
    /\ msg.content = "NodeApproval"
    /\ msg.src.kind = "PrefixSection"
    /\ msg.dst.kind = "Node"

\* handle_node_approval; the genesis info is the one value "gen_pfx_info".
handle_node_approval(self, gen_pfx_info) ==
    [self |-> self, transition |-> IntoAdult(gen_pfx_info)]

dispatch_routing_message(self, msg) ==
    IF IsNodeApproval(msg)
    THEN handle_node_approval(self, "gen_pfx_info")
    ELSE [self |-> [self EXCEPT !.msg_backlog = Append(@, msg)],
          transition |-> Stay]

\* JoiningPeer::handle_hop_message; integrity_ok is whether
\* check_signed_message_integrity succeeds.
JoiningPeer_handle_hop_message(self, msg, integrity_ok) ==
    LET f  == RoutingMessageFilter_filter_incoming(self.routing_msg_filter, msg)
        s1 == [self EXCEPT !.routing_msg_filter = f.filter]
    IN  IF f.is_new /\ JoiningPeer_in_authority(s1, msg.dst)
        THEN IF integrity_ok
             THEN dispatch_routing_message(s1, msg)
             ELSE [self |-> s1, transition |-> [t |-> "Err"]]
        ELSE [self |-> s1, transition |-> Stay]

\* Mutant of into_adult: the backlog is not handed over.
into_adult_empty_backlog(self, gen_pfx_info) ==
    [state              |-> "Adult",
     event_backlog      |-> <<>>,
     full_id            |-> self.full_id,
     gen_pfx_info       |-> gen_pfx_info,
     msg_backlog        |-> <<>>,
     peer_map           |-> self.peer_map,
     routing_msg_filter |-> self.routing_msg_filter,
     timer              |-> self.timer,
     log                |-> self.log]

\* JoiningPeer::into_adult: the Adult state built from AdultDetails.
into_adult(self, gen_pfx_info) ==
    [state              |-> "Adult",
     event_backlog      |-> <<>>,
     full_id            |-> self.full_id,
     gen_pfx_info       |-> gen_pfx_info,
     msg_backlog        |-> self.msg_backlog,
     peer_map           |-> self.peer_map,
     routing_msg_filter |-> self.routing_msg_filter,
     timer              |-> self.timer,
     log                |-> self.log]

RECURSIVE send_join_requests_to(_, _)
send_join_requests_to(self, conn_infos) ==
    IF conn_infos = <<>> THEN self
    ELSE send_join_requests_to(
             send_direct_message(self, Head(conn_infos),
                 [type |-> "JoinRequest", payload |-> self.relocate_payload]),
             Tail(conn_infos))

\* Mutant of send_join_requests: every contact is sent the request twice.
send_join_requests_twice(self) ==
    send_join_requests_to(send_join_requests_to(self, self.conn_infos),
                          self.conn_infos)

send_join_requests(self) == send_join_requests_to(self, self.conn_infos)

\* Mutant of JoiningPeer::new: no JoinRequest is sent on entry.
JoiningPeer_new_no_requests(network_service, full_id, timer, peer_map, conn_infos, relocate_payload) ==
    Timer_schedule(
        [state            |-> "JoiningPeer",
         full_id          |-> full_id,
         peer_map         |-> peer_map,
         timer            |-> timer,
         join_token       |-> timer,
         join_attempts    |-> 0,
         conn_infos       |-> conn_infos,
         relocate_payload |-> relocate_payload,
         routing_msg_filter |-> {},
         msg_backlog      |-> <<>>,
         log              |-> network_service],
        JOIN_TIMEOUT)

\* JoiningPeer::new; network_service is the call record so far.
JoiningPeer_new(network_service, full_id, timer, peer_map, conn_infos, relocate_payload) ==
    send_join_requests(
        Timer_schedule(
            [state            |-> "JoiningPeer",
             full_id          |-> full_id,
             peer_map         |-> peer_map,
             timer            |-> timer,
             join_token       |-> timer,
             join_attempts    |-> 0,
             conn_infos       |-> conn_infos,
             relocate_payload |-> relocate_payload,
             routing_msg_filter |-> {},
             msg_backlog      |-> <<>>,
             log              |-> network_service],
            JOIN_TIMEOUT))

\* BootstrappingPeer::into_joining.
into_joining(self, conn_infos, relocate_payload) ==
    JoiningPeer_new(self.log, self.full_id, self.timer, self.peer_map,
                    conn_infos, relocate_payload)

\* Mutant of JoiningPeer::rebootstrap: the identity is kept.
JoiningPeer_rebootstrap_same_id(self, new_full_id) ==
    BootstrappingPeer_new(self.log, self.full_id, self.timer)

\* JoiningPeer::rebootstrap; new_full_id is what FullId::new() returns.
JoiningPeer_rebootstrap(self, new_full_id) ==
    BootstrappingPeer_new(self.log, new_full_id, self.timer)

\* Mutant of JoiningPeer::handle_timeout: the attempts are not counted.
JoiningPeer_handle_timeout_uncounted(self, token) ==
    IF self.join_token = token
    THEN LET s1 == self
         IN  IF s1.join_attempts < MAX_JOIN_ATTEMPTS
             THEN [self |-> send_join_requests(
                               [Timer_schedule(s1, JOIN_TIMEOUT)
                                    EXCEPT !.join_token = s1.timer]),
                   transition |-> Stay]
             ELSE [self |-> disconnect_from_all(
                               [s1 EXCEPT !.peer_map = {}],
                               {c.peer_addr : c \in s1.peer_map}),
                   transition |-> Rebootstrap]
    ELSE [self |-> self, transition |-> Stay]

\* Mutant of JoiningPeer::handle_timeout: one attempt more before giving up.
JoiningPeer_handle_timeout_one_more(self, token) ==
    IF self.join_token = token
    THEN LET s1 == [self EXCEPT !.join_attempts = @ + 1]
         IN  IF s1.join_attempts <= MAX_JOIN_ATTEMPTS
             THEN [self |-> send_join_requests(
                               [Timer_schedule(s1, JOIN_TIMEOUT)
                                    EXCEPT !.join_token = s1.timer]),
                   transition |-> Stay]
             ELSE [self |-> disconnect_from_all(
                               [s1 EXCEPT !.peer_map = {}],
                               {c.peer_addr : c \in s1.peer_map}),
                   transition |-> Rebootstrap]
    ELSE [self |-> self, transition |-> Stay]

JoiningPeer_handle_timeout(self, token) ==
    IF self.join_token = token
    THEN LET s1 == [self EXCEPT !.join_attempts = @ + 1]
         IN  IF s1.join_attempts < MAX_JOIN_ATTEMPTS
             THEN [self |-> send_join_requests(
                               [Timer_schedule(s1, JOIN_TIMEOUT)
                                    EXCEPT !.join_token = s1.timer]),
                   transition |-> Stay]
             ELSE [self |-> disconnect_from_all(
                               [s1 EXCEPT !.peer_map = {}],
                               {c.peer_addr : c \in s1.peer_map}),
                   transition |-> Rebootstrap]
    ELSE [self |-> self, transition |-> Stay]

\* Mutant of JoiningPeer::handle_direct_message: a direct message makes the
\* node send its join requests again.
JoiningPeer_handle_direct_message_resends(self, msg) ==
    [self |-> send_join_requests(self), transition |-> Stay]

\* JoiningPeer::handle_direct_message: the message is only logged.
JoiningPeer_handle_direct_message(self, msg) ==
    [self |-> self, transition |-> Stay]

\* --------------------------------------------------------- ChainAccumulator
VARIABLES
    chain_accumulator,  \* BTreeMap<AccumulatingEvent, AccumulatingProof>
    completed_events,   \* BTreeSet<AccumulatingEvent>
    call,               \* the last call on the accumulator: arguments, result
    delivered,          \* history: events for which poll_event returned Some
    everCompleted,      \* history: events that were ever in completed_events
    obs_event,          \* the NetworkEvent handed to into_obs
    obs_result,         \* None, or Some(result of into_obs(obs_event))
    node,               \* the lifecycle state of the node (enum State)
    handled,            \* the last event handled: handler, input, transition
    bootstrap_requested, \* the link layer has a bootstrap() it has not answered
    join_requests_sent  \* history: JoinRequests sent to each contact since
                        \* the node entered Joining

accVars == <<chain_accumulator, completed_events, call, delivered, everCompleted>>
obsVars == <<obs_event, obs_result>>
peerVars == <<node, handled, bootstrap_requested, join_requests_sent>>
vars == <<accVars, obsVars, peerVars>>

\* The number of JoinRequests a call record sends to each contact.
JoinRequestsIn(log) ==
    [c \in ConnectionInfo |->
        Len(SelectSeq(log, LAMBDA e : /\ e.op = "send"
                                       /\ e.msg.type = "JoinRequest"
                                       /\ e.dst = c))]

NoneSent == [c \in ConnectionInfo |-> 0]

\* The JoinRequests sent so far in the Joining episode of the state `self`,
\* which a handler has just produced: those of the call record on entry,
\* those sent before and those of the call record while the node stays in
\* Joining, none outside Joining.
Sent(self) ==
    IF self.state # "JoiningPeer" THEN NoneSent
    ELSE IF node.state # "JoiningPeer" THEN JoinRequestsIn(self.log)
    ELSE [c \in ConnectionInfo |->
             join_requests_sent[c] + JoinRequestsIn(self.log)[c]]

\* The accumulator as a value (the fields of `self`).
Self == [chain_accumulator |-> chain_accumulator,
         completed_events  |-> completed_events]

Ok == "Ok"
AlreadyComplete == "AlreadyComplete"
ReplacedAlreadyInserted == "ReplacedAlreadyInserted"

\* Mutant of insert_with_proof_set: the completed_events check is missing.
insert_with_proof_set_unchecked(self, event, proof_set) ==
    [self   |-> [self EXCEPT !.chain_accumulator =
                    MapInsert(@, event, from_proof_set(proof_set))],
     result |-> IF event \in DOMAIN self.chain_accumulator
                THEN ReplacedAlreadyInserted
                ELSE Ok]

\* Mutant of insert_with_proof_set: an existing entry is kept (entry().or_insert).
insert_with_proof_set_keeps(self, event, proof_set) ==
    IF event \in self.completed_events
    THEN [self |-> self, result |-> AlreadyComplete]
    ELSE IF event \in DOMAIN self.chain_accumulator
    THEN [self |-> self, result |-> ReplacedAlreadyInserted]
    ELSE [self   |-> [self EXCEPT !.chain_accumulator =
                         MapInsert(@, event, from_proof_set(proof_set))],
          result |-> Ok]

\* Mutant of insert_with_proof_set: only parsec_proofs of an existing entry is
\* replaced, its sig_shares are kept.
insert_with_proof_set_keeps_shares(self, event, proof_set) ==
    IF event \in self.completed_events
    THEN [self |-> self, result |-> AlreadyComplete]
    ELSE LET old == IF event \in DOMAIN self.chain_accumulator
                    THEN self.chain_accumulator[event]
                    ELSE AccumulatingProof_default
         IN  [self   |-> [self EXCEPT !.chain_accumulator =
                             MapInsert(@, event,
                                 [parsec_proofs |-> proof_set,
                                  sig_shares    |-> old.sig_shares])],
              result |-> IF event \in DOMAIN self.chain_accumulator
                         THEN ReplacedAlreadyInserted
                         ELSE Ok]

\* ChainAccumulator::insert_with_proof_set.
insert_with_proof_set(self, event, proof_set) ==
    IF event \in self.completed_events
    THEN [self |-> self, result |-> AlreadyComplete]
    ELSE [self   |-> [self EXCEPT !.chain_accumulator =
                         MapInsert(@, event, from_proof_set(proof_set))],
          result |-> IF event \in DOMAIN self.chain_accumulator
                     THEN ReplacedAlreadyInserted
                     ELSE Ok]

\* Mutant of add_proof: the completed_events check is missing.
add_proof_unchecked(self, event, proof, signature) ==
    LET entry == IF event \in DOMAIN self.chain_accumulator
                 THEN self.chain_accumulator[event]
                 ELSE AccumulatingProof_default
        added == AccumulatingProof_add_proof(entry, proof, signature)
    IN  [self   |-> [self EXCEPT !.chain_accumulator =
                        MapInsert(@, event, added.self)],
         result |-> IF added.result THEN Ok ELSE ReplacedAlreadyInserted]

\* Mutant of add_proof: the entry is updated before completed_events is checked.
add_proof_check_after(self, event, proof, signature) ==
    LET r == add_proof_unchecked(self, event, proof, signature)
    IN  [self   |-> r.self,
         result |-> IF event \in self.completed_events
                    THEN AlreadyComplete
                    ELSE r.result]

\* Mutant of add_proof: the proof goes into a fresh AccumulatingProof
\* (insert(event, default) instead of entry(event).or_insert_with(default)).
add_proof_fresh_entry(self, event, proof, signature) ==
    IF event \in self.completed_events
    THEN [self |-> self, result |-> AlreadyComplete]
    ELSE LET added == AccumulatingProof_add_proof(
                          AccumulatingProof_default, proof, signature)
         IN  [self   |-> [self EXCEPT !.chain_accumulator =
                             MapInsert(@, event, added.self)],
              result |-> IF event \in DOMAIN self.chain_accumulator
                            /\ proof.pub_id \in
                                 DOMAIN self.chain_accumulator[event].parsec_proofs
                         THEN ReplacedAlreadyInserted
                         ELSE Ok]

\* ChainAccumulator::add_proof.
add_proof(self, event, proof, signature) ==
    IF event \in self.completed_events
    THEN [self |-> self, result |-> AlreadyComplete]
    ELSE LET entry == IF event \in DOMAIN self.chain_accumulator
                      THEN self.chain_accumulator[event]
                      ELSE AccumulatingProof_default
             added == AccumulatingProof_add_proof(entry, proof, signature)
         IN  [self   |-> [self EXCEPT !.chain_accumulator =
                             MapInsert(@, event, added.self)],
              result |-> IF added.result THEN Ok ELSE ReplacedAlreadyInserted]

\* Mutant of poll_event: the event is not recorded in completed_events.
poll_event_forgets(self, event) ==
    IF event \notin DOMAIN self.chain_accumulator
    THEN [self |-> self, result |-> None, duplicate |-> FALSE]
    ELSE [self      |-> [self EXCEPT !.chain_accumulator = MapRemove(@, event)],
          result    |-> Some(<<event, self.chain_accumulator[event]>>),
          duplicate |-> FALSE]

\* Mutant of poll_event: completed_events is updated before the pending map
\* is looked up, so an event that is not pending is completed too.
poll_event_completes_unseen(self, event) ==
    IF event \notin DOMAIN self.chain_accumulator
    THEN [self      |-> [self EXCEPT !.completed_events = @ \cup {event}],
          result    |-> None,
          duplicate |-> event \in self.completed_events]
    ELSE [self      |-> [chain_accumulator |-> MapRemove(self.chain_accumulator, event),
                         completed_events  |-> self.completed_events \cup {event}],
          result    |-> Some(<<event, self.chain_accumulator[event]>>),
          duplicate |-> event \in self.completed_events]

\* Mutant of poll_event: the entry is read but stays in the pending map.
poll_event_keeps_pending(self, event) ==
    IF event \notin DOMAIN self.chain_accumulator
    THEN [self |-> self, result |-> None, duplicate |-> FALSE]
    ELSE [self      |-> [self EXCEPT !.completed_events = @ \cup {event}],
          result    |-> Some(<<event, self.chain_accumulator[event]>>),
          duplicate |-> event \in self.completed_events]

\* Mutant of poll_event: an entry without any proof is not handed out.
poll_event_requires_proofs(self, event) ==
    IF \/ event \notin DOMAIN self.chain_accumulator
       \/ DOMAIN self.chain_accumulator[event].parsec_proofs = {}
    THEN [self |-> self, result |-> None, duplicate |-> FALSE]
    ELSE [self      |-> [chain_accumulator |-> MapRemove(self.chain_accumulator, event),
                         completed_events  |-> self.completed_events \cup {event}],
          result    |-> Some(<<event, self.chain_accumulator[event]>>),
          duplicate |-> event \in self.completed_events]

\* ChainAccumulator::poll_event.  `duplicate` is the log_or_panic branch.
poll_event(self, event) ==
    IF event \notin DOMAIN self.chain_accumulator
    THEN [self |-> self, result |-> None, duplicate |-> FALSE]
    ELSE [self      |-> [chain_accumulator |-> MapRemove(self.chain_accumulator, event),
                         completed_events  |-> self.completed_events \cup {event}],
          result    |-> Some(<<event, self.chain_accumulator[event]>>),
          duplicate |-> event \in self.completed_events]

\* ChainAccumulator::incomplete_events.
incomplete_events(self) ==
    {<<e, self.chain_accumulator[e]>> : e \in DOMAIN self.chain_accumulator}

\* Mutant of reset_accumulator: the filter on our_id is missing.
reset_accumulator_unfiltered(self, our_id) ==
    LET chain_acc == self.chain_accumulator
    IN  [self   |-> [chain_accumulator |-> EmptyMap, completed_events |-> {}],
         result |-> [cached_events |->
                        {into_network_event_with(
                             e, MapGet(into_sig_shares(chain_acc[e]), our_id)) :
                         e \in DOMAIN chain_acc},
                     completed_events |-> self.completed_events]]

\* Mutant of reset_accumulator: the first share of the map is taken
\* (into_iter().next()) instead of the share of our_id.
reset_accumulator_first_share(self, our_id) ==
    LET chain_acc == self.chain_accumulator
        kept == {e \in DOMAIN chain_acc :
                    ProofSet_contains_id(chain_acc[e].parsec_proofs, our_id)}
        first(m) == IF DOMAIN m = {} THEN None
                    ELSE Some(m[CHOOSE k \in DOMAIN m : \A j \in DOMAIN m : k <= j])
    IN  [self   |-> [chain_accumulator |-> EmptyMap, completed_events |-> {}],
         result |-> [cached_events |->
                        {into_network_event_with(
                             e, first(into_sig_shares(chain_acc[e]))) :
                         e \in kept},
                     completed_events |-> self.completed_events]]

\* Mutant of reset_accumulator: completed_events is read after it was replaced.
reset_accumulator_drops_completed(self, our_id) ==
    LET chain_acc == self.chain_accumulator
        kept == {e \in DOMAIN chain_acc :
                    ProofSet_contains_id(chain_acc[e].parsec_proofs, our_id)}
    IN  [self   |-> [chain_accumulator |-> EmptyMap, completed_events |-> {}],
         result |-> [cached_events |->
                        {into_network_event_with(
                             e, MapGet(into_sig_shares(chain_acc[e]), our_id)) :
                         e \in kept},
                     completed_events |-> {}]]

\* Mutant of reset_accumulator: the events are rebuilt with
\* into_network_event(), without our share.
reset_accumulator_no_share(self, our_id) ==
    LET chain_acc == self.chain_accumulator
        kept == {e \in DOMAIN chain_acc :
                    ProofSet_contains_id(chain_acc[e].parsec_proofs, our_id)}
    IN  [self   |-> [chain_accumulator |-> EmptyMap, completed_events |-> {}],
         result |-> [cached_events |-> {into_network_event(e) : e \in kept},
                     completed_events |-> self.completed_events]]

\* ChainAccumulator::reset_accumulator: both fields are replaced by their
\* defaults; the result is the RemainingEvents.
reset_accumulator(self, our_id) ==
    LET chain_acc == self.chain_accumulator
        kept == {e \in DOMAIN chain_acc :
                    ProofSet_contains_id(chain_acc[e].parsec_proofs, our_id)}
    IN  [self   |-> [chain_accumulator |-> EmptyMap, completed_events |-> {}],
         result |-> [cached_events |->
                        {into_network_event_with(
                             e, MapGet(into_sig_shares(chain_acc[e]), our_id)) :
                         e \in kept},
                     completed_events |-> self.completed_events]]

\* ------------------------------------------------------------------ actions
\* ChainAccumulator::default().
AccInit ==
    /\ chain_accumulator = EmptyMap
    /\ completed_events = {}
    /\ call = NoCall
    /\ delivered = {}
    /\ everCompleted = {}

\* No NetworkEvent is being converted.
ObsIdle ==
    /\ obs_event = into_network_event([variant |-> "OurMerge", arg |-> None])
    /\ obs_result = None

\* The node a fresh start constructs: BootstrappingPeer::new with the first
\* identity and an unused timer.
NodeIdle ==
    /\ node = BootstrappingPeer_new(<<>>, [name |-> "0", key |-> 1], 0)
    /\ handled = NotHandled
    /\ bootstrap_requested = TRUE
    /\ join_requests_sent = NoneSent

Init == AccInit /\ ObsIdle /\ NodeIdle

Commit(r) ==
    /\ chain_accumulator' = r.self.chain_accumulator
    /\ completed_events' = r.self.completed_events
    /\ everCompleted' = everCompleted \cup r.self.completed_events
    /\ UNCHANGED <<obsVars, peerVars>>

InsertWithProofSetOf(events, proof_sets) ==
    \E event \in events, proof_set \in proof_sets :
        LET r == insert_with_proof_set(Self, event, proof_set)
        IN  /\ Commit(r)
            /\ call' = [op |-> "insert_with_proof_set", event |-> event,
                        proof_set |-> proof_set, result |-> r.result]
            /\ UNCHANGED delivered

AddProofOf(events, proofs) ==
    \E event \in events, proof \in proofs,
       signature \in Option(SectionInfoSigPayload) :
        LET r == add_proof(Self, event, proof, signature)
        IN  /\ Commit(r)
            /\ call' = [op |-> "add_proof", event |-> event, proof |-> proof,
                        signature |-> signature, result |-> r.result]
            /\ UNCHANGED delivered

PollEventOf(events) ==
    \E event \in events :
        LET r == poll_event(Self, event)
        IN  /\ Commit(r)
            /\ call' = [op |-> "poll_event", event |-> event,
                        result |-> r.result, duplicate |-> r.duplicate]
            /\ delivered' = IF r.result = None THEN delivered
                            ELSE delivered \cup {event}

ResetAccumulator ==
    \E our_id \in PublicId :
        LET r == reset_accumulator(Self, our_id)
        IN  /\ Commit(r)
            /\ call' = [op |-> "reset_accumulator", our_id |-> our_id,
                        result |-> r.result]
            /\ UNCHANGED delivered

\* The calls with the value sets of the accumulator's specification.
InsertWithProofSet == InsertWithProofSetOf(AccumulatingEvent, ProofSet)
AddProof == AddProofOf(AccumulatingEvent, Proof)
PollEvent == PollEventOf(AccumulatingEvent)

Next == InsertWithProofSet \/ AddProof \/ PollEvent \/ ResetAccumulator

Spec == Init /\ [][Next]_vars

\* One accumulator that is never reset.
NextNoReset == InsertWithProofSet \/ AddProof \/ PollEvent

SpecNoReset == Init /\ [][NextNoReset]_vars

\* One event whose proofs carry one of two signature values: the calls on a
\* single pending entry, with signatures that can be told apart.
SigEvent == {"SectionInfo"}
SigSignature == {"sig", "sig_b"}
SigProof == [pub_id : PublicId, sig : SigSignature]
SigProofSet == UNION {[D -> SigSignature] : D \in SUBSET PublicId}

SigInsertWithProofSet == InsertWithProofSetOf(SigEvent, SigProofSet)
SigAddProof == AddProofOf(SigEvent, SigProof)
SigPollEvent == PollEventOf(SigEvent)

NextSig == SigInsertWithProofSet \/ SigAddProof \/ SigPollEvent \/ ResetAccumulator

SpecSig == Init /\ [][NextSig]_vars

\* -------------------------------------------------------------- into_obs
\* A NetworkEvent is converted once.
InitObs ==
    /\ AccInit
    /\ obs_event \in ObsNetworkEvent
    /\ obs_result = None
    /\ NodeIdle

IntoObs ==
    /\ obs_result = None
    /\ obs_result' = Some(into_obs(obs_event))
    /\ UNCHANGED <<obs_event, accVars, peerVars>>

NextObs == IntoObs

SpecObs == InitObs /\ [][NextObs]_vars

\* -------------------------------------------------------- node lifecycle
\* A node starts in BootstrappingPeer::new, or in BootstrappingPeer::relocate
\* with the contacts and the details its section gave it.
InitPeer ==
    /\ AccInit
    /\ ObsIdle
    /\ join_requests_sent = NoneSent
    /\ \/ \E n \in XorName :
            /\ node = BootstrappingPeer_new(<<>>, [name |-> n, key |-> 1], 0)
            /\ handled = NotHandled
            /\ bootstrap_requested = TRUE
       \/ \E n \in XorName, cs \in ConnectionInfos, d \in SignedRelocateDetails :
            /\ node = BootstrappingPeer_relocate(<<>>, [name |-> n, key |-> 1],
                                                 0, cs, d)
            /\ handled = [handler |-> "relocate", conn_infos |-> cs]
            /\ bootstrap_requested = FALSE

\* The handler runs on the state with an empty call record.
Running == [node EXCEPT !.log = <<>>]

\* The state machine applies the transition a handler returned;
\* new_full_id is what FullId::new() returns on Rebootstrap.
Apply(r, new_full_id) ==
    CASE r.transition.t = "IntoJoining" ->
             into_joining(r.self, r.transition.conn_infos,
                          r.transition.relocate_payload)
      [] r.transition.t = "Rebootstrap" ->
             JoiningPeer_rebootstrap(r.self, new_full_id)
      [] r.transition.t = "IntoAdult" ->
             into_adult(r.self, r.transition.gen_pfx_info)
      [] r.transition.t = "Terminate" ->
             [state |-> "Terminated", log |-> r.self.log]
      [] OTHER -> r.self

\* The calls of one kind in a call record, in order.
Calls(log, op) == SelectSeq(log, LAMBDA e : e.op = op)

\* The link layer answers a bootstrap() with BootstrappedTo or with
\* BootstrapFailure: a request is outstanding after a handler that called
\* bootstrap(), and no longer after the handler of one of the two answers.
Requested(log, handler) ==
    IF Calls(log, "bootstrap") # <<>> THEN TRUE
    ELSE IF handler \in {"handle_bootstrapped_to", "handle_bootstrap_failure"}
    THEN FALSE
    ELSE bootstrap_requested

\* One event of the driver: the handler's result is applied, as long as
\* the tokens and the key pairs stay within MaxToken and MaxKey.
Handle(r, new_full_id, h) ==
    /\ node' = Apply(r, new_full_id)
    /\ node'.state # "Terminated" =>
           /\ node'.timer <= MaxToken + 1
           /\ node'.full_id.key <= MaxKey
    /\ handled' = h
    /\ bootstrap_requested' = Requested(node'.log, h.handler)
    /\ join_requests_sent' = Sent(node')
    /\ UNCHANGED <<accVars, obsVars>>

BootstrappingHandleTimeout ==
    /\ node.state = "BootstrappingPeer"
    /\ \E token \in 0..MaxToken :
         LET r == BootstrappingPeer_handle_timeout(Running, token)
         IN  Handle(r, node.full_id,
                    [handler |-> "handle_timeout", token |-> token,
                     transition |-> r.transition])

HandleBootstrappedTo ==
    /\ node.state = "BootstrappingPeer"
    /\ \E conn_info \in ConnectionInfo :
         LET r == handle_bootstrapped_to(Running, conn_info)
         IN  Handle(r, node.full_id,
                    [handler |-> "handle_bootstrapped_to",
                     conn_info |-> conn_info, transition |-> r.transition])

HandleBootstrapFailure ==
    /\ node.state = "BootstrappingPeer"
    /\ LET r == handle_bootstrap_failure(Running)
       IN  Handle(r, node.full_id,
                  [handler |-> "handle_bootstrap_failure",
                   transition |-> r.transition])

HandleConnectedTo ==
    /\ node.state = "BootstrappingPeer"
    /\ \E conn_info \in ConnectionInfo :
         LET r == handle_connected_to(Running, conn_info)
         IN  Handle(r, node.full_id,
                    [handler |-> "handle_connected_to",
                     conn_info |-> conn_info, transition |-> r.transition])

HandleConnectionFailure ==
    /\ node.state = "BootstrappingPeer"
    /\ \E peer_addr \in SocketAddr :
         LET r == handle_connection_failure(Running, peer_addr)
         IN  Handle(r, node.full_id,
                    [handler |-> "handle_connection_failure",
                     peer_addr |-> peer_addr, transition |-> r.transition])

BootstrappingHandleDirectMessage ==
    /\ node.state = "BootstrappingPeer"
    /\ \E msg \in DirectMessage :
         \E payload_ok \in IF IsJoin(msg) /\ node.relocate_details # None
                            THEN BOOLEAN ELSE {TRUE},
            new_full_id \in IF IsJoin(msg)
                                /\ ~Prefix_matches(msg.prefix, node.full_id.name)
                             THEN FullId_within_range(node.full_id, msg.prefix)
                             ELSE {node.full_id} :
            LET r == BootstrappingPeer_handle_direct_message(
                         Running, msg, new_full_id, payload_ok)
            IN  Handle(r, node.full_id,
                       [handler |-> "handle_direct_message", msg |-> msg,
                        transition |-> r.transition])

JoiningHandleTimeout ==
    /\ node.state = "JoiningPeer"
    /\ \E token \in 0..MaxToken :
         LET r == JoiningPeer_handle_timeout(Running, token)
         IN  \E new_full_id \in IF r.transition = Rebootstrap
                                 THEN FullId_new(node.full_id)
                                 ELSE {node.full_id} :
                Handle(r, new_full_id,
                       [handler |-> "handle_timeout", token |-> token,
                        transition |-> r.transition])

BootstrappingHandleHopMessage ==
    /\ node.state = "BootstrappingPeer"
    /\ \E msg \in RoutingMessage :
         LET r == BootstrappingPeer_handle_hop_message(Running, msg)
         IN  Handle(r, node.full_id,
                    [handler |-> "handle_hop_message", msg |-> msg,
                     transition |-> r.transition])

\* The direct messages handed to a joining node: every kind, the responses
\* with an empty contact list.
JoiningHandleDirectMessage ==
    /\ node.state = "JoiningPeer"
    /\ \E msg \in {m \in DirectMessage :
                      m.type = "BootstrapRequest" \/ m.conn_infos = <<>>} :
         LET r == JoiningPeer_handle_direct_message(Running, msg)
         IN  Handle(r, node.full_id,
                    [handler |-> "handle_direct_message", msg |-> msg,
                     transition |-> r.transition])

NextPeer ==
    \/ BootstrappingHandleTimeout
    \/ HandleBootstrappedTo
    \/ HandleBootstrapFailure
    \/ HandleConnectedTo
    \/ HandleConnectionFailure
    \/ BootstrappingHandleDirectMessage
    \/ JoiningHandleTimeout

SpecPeer == InitPeer /\ [][NextPeer]_vars

\* The lifecycle with the events the two states do not handle.
NextUnhandled ==
    \/ NextPeer
    \/ BootstrappingHandleHopMessage
    \/ JoiningHandleDirectMessage

SpecUnhandled == InitPeer /\ [][NextUnhandled]_vars

\* ------------------------------------------------------- joining a section
\* A node enters Joining through JoiningPeer::new: with any peer map, with
\* no contact or one, and for a relocated node with the payload of its
\* relocation.
InitJoin ==
    /\ AccInit
    /\ ObsIdle
    /\ \E n \in XorName, peer_map \in SUBSET ConnectionInfo,
          conn_infos \in {cs \in ConnectionInfos : Len(cs) <= 1},
          relocated \in BOOLEAN :
          LET full_id == [name |-> n, key |-> 1]
              relocate_payload ==
                  IF relocated
                  THEN Some(RelocatePayload_new([destination |-> n],
                                                full_id, full_id))
                  ELSE None
          IN  node = JoiningPeer_new(<<>>, full_id, 0, peer_map, conn_infos,
                                     relocate_payload)
    /\ handled = NotHandled
    /\ bootstrap_requested = FALSE
    /\ join_requests_sent = JoinRequestsIn(node.log)

JoiningHandleHopMessage ==
    /\ node.state = "JoiningPeer"
    /\ \E msg \in RoutingMessage :
         \E integrity_ok \in IF /\ msg \notin node.routing_msg_filter
                                 /\ JoiningPeer_in_authority(node, msg.dst)
                              THEN BOOLEAN ELSE {TRUE} :
         LET r == JoiningPeer_handle_hop_message(Running, msg, integrity_ok)
         IN  /\ Cardinality(r.self.routing_msg_filter) <= MaxSeen
             /\ Handle(r, node.full_id,
                       [handler |-> "handle_hop_message", msg |-> msg,
                        integrity_ok |-> integrity_ok,
                        transition |-> r.transition])

\* Adult::relocate: the section relocates the node, which starts to
\* bootstrap again, as the identity it has, with the contacts and the
\* details it was given.
AdultRelocate ==
    /\ node.state = "Adult"
    /\ \E conn_infos \in ConnectionInfos, d \in SignedRelocateDetails :
         /\ node' = BootstrappingPeer_relocate(<<>>, node.full_id, node.timer,
                                               conn_infos, d)
         /\ node'.timer <= MaxToken + 1
         /\ handled' = [handler |-> "relocate", conn_infos |-> conn_infos]
         /\ bootstrap_requested' = FALSE
         /\ join_requests_sent' = NoneSent
         /\ UNCHANGED <<accVars, obsVars>>

NextJoin ==
    \/ JoiningHandleTimeout
    \/ JoiningHandleHopMessage
    \/ AdultRelocate

SpecJoin == InitJoin /\ [][NextJoin]_vars

\* The timer fires the token the joining node scheduled last.
JoinTokenFires ==
    /\ JoiningHandleTimeout
    /\ handled'.token = node.join_token

\* A joining node that is never handed a NodeApproval: its timer fires and
\* it is handed direct messages; scheduled timers eventually fire.
NextJoinLive ==
    \/ JoiningHandleTimeout
    \/ JoiningHandleDirectMessage

SpecJoinLive ==
    InitJoin /\ [][NextJoinLive]_vars /\ WF_vars(JoinTokenFires)

\* ------------------------------------------------------------------ claims
\* Shorthands for the state before a step (unprimed) of one pending entry.
Pending == DOMAIN chain_accumulator
SignersOf(event) == DOMAIN chain_accumulator[event].parsec_proofs
ShareSignersOf(event) == DOMAIN chain_accumulator[event].sig_shares

\* C1: at-most-once delivery.  On one accumulator that is only driven by
\* insert_with_proof_set, add_proof and poll_event, a call poll_event(e)
\* returns Some only if no earlier poll_event(e) returned Some.
C1_AtMostOnceDelivery ==
    [][(call'.op = "poll_event" /\ call'.result # None)
          => call'.event \notin delivered]_vars

\* C1 witness: an event was delivered, and a later poll of it returned None.
C1_Witness ==
    /\ call.op = "poll_event"
    /\ call.result = None
    /\ call.event \in delivered

\* C2: disjointness.  No event is both a key of the pending map and a member
\* of completed_events.
C2_Disjoint == Pending \cap completed_events = {}

\* C2 witness: a poll has just completed one event while another is pending.
C2_Witness ==
    /\ call.op = "poll_event"
    /\ call.result # None
    /\ completed_events # {}
    /\ Pending # {}

\* C3 as stated: an event that was ever in completed_events is never a key
\* of the pending map afterwards, whatever operations follow.
C3_NeverPendingAgain == everCompleted \cap Pending = {}

\* C3 amended: an event in completed_events stays there and stays out of the
\* pending map across every insert_with_proof_set, add_proof and poll_event;
\* only reset_accumulator removes it from completed_events.
C3_NotPendingUntilReset ==
    [][\A e \in completed_events :
          call'.op # "reset_accumulator"
             => (e \in completed_events' /\ e \notin DOMAIN chain_accumulator')]_vars

\* C3 witness: insert_with_proof_set on a completed event was refused and the
\* event is still completed and not pending.
C3_Witness ==
    /\ call.op = "insert_with_proof_set"
    /\ call.result = AlreadyComplete
    /\ call.event \in completed_events
    /\ call.event \notin Pending

\* C4: reset preserves own votes.  reset_accumulator(u).cached_events holds
\* one NetworkEvent for each pending event whose parsec_proofs contain u and
\* none for any other event, and afterwards the pending map and
\* completed_events are both empty.
C4_ResetPreservesOwnVotes ==
    [][call'.op = "reset_accumulator" =>
          LET u == call'.our_id
              own == {e \in Pending : u \in SignersOf(e)}
              cached == call'.result.cached_events
          IN  /\ {ne.payload : ne \in cached} = own
              /\ Cardinality(cached) = Cardinality(own)
              /\ chain_accumulator' = EmptyMap
              /\ completed_events' = {}]_vars

\* C4 witness: a reset returned exactly one cached event.
C4_Witness ==
    /\ call.op = "reset_accumulator"
    /\ Cardinality(call.result.cached_events) = 1
    /\ Pending = {}
    /\ completed_events = {}

\* C5: every cached NetworkEvent of reset_accumulator(our_id) carries the
\* share stored for our_id in that event's sig_shares, and None if our_id
\* stored none; the share of another signer never appears.
C5_ResetKeepsOwnShare ==
    [][call'.op = "reset_accumulator" =>
          \A ne \in call'.result.cached_events :
              /\ ne.payload \in Pending
              /\ ne.signature =
                    IF call'.our_id \in ShareSignersOf(ne.payload)
                    THEN Some(chain_accumulator[ne.payload]
                                  .sig_shares[call'.our_id])
                    ELSE None]_vars

\* C5 witness: a reset returned one cached event with a share and one without.
C5_Witness ==
    /\ call.op = "reset_accumulator"
    /\ \E ne \in call.result.cached_events : ne.signature # None
    /\ \E ne \in call.result.cached_events : ne.signature = None

\* C6: reset_accumulator returns as completed_events exactly the events that
\* were completed before the call, for every our_id, and no completed event
\* is among the cached events.
C6_ResetReturnsCompleted ==
    [][call'.op = "reset_accumulator" =>
          /\ call'.result.completed_events = completed_events
          /\ \A ne \in call'.result.cached_events :
                 ne.payload \notin call'.result.completed_events]_vars

\* C6 witness: a reset returned a completed event and a cached event.
C6_Witness ==
    /\ call.op = "reset_accumulator"
    /\ call.result.completed_events # {}
    /\ call.result.cached_events # {}

\* C7: on a completed event insert_with_proof_set and add_proof return
\* Err(AlreadyComplete) and change neither the pending map nor
\* completed_events.
C7_AlreadyCompleteNoChange ==
    [][(call'.op \in {"insert_with_proof_set", "add_proof"}
          /\ call'.event \in completed_events)
          => /\ call'.result = AlreadyComplete
             /\ chain_accumulator' = chain_accumulator
             /\ completed_events' = completed_events
             /\ incomplete_events(Self)' = incomplete_events(Self)]_vars

\* C7 witness: add_proof was refused with AlreadyComplete while another
\* event is pending.
C7_Witness ==
    /\ call.op = "add_proof"
    /\ call.result = AlreadyComplete
    /\ call.event \in completed_events
    /\ Pending # {}

\* C8: insert_with_proof_set on an event that is not completed leaves as its
\* pending entry exactly the incoming proof set with no signature shares,
\* and returns Err(ReplacedAlreadyInserted) if the event was pending before
\* the call and Ok if it was not.
C8_InsertReplacesEntry ==
    [][(call'.op = "insert_with_proof_set"
          /\ call'.event \notin completed_events)
          => /\ call'.event \in DOMAIN chain_accumulator'
             /\ chain_accumulator'[call'.event] =
                    [parsec_proofs |-> call'.proof_set, sig_shares |-> EmptyMap]
             /\ call'.result = IF call'.event \in Pending
                               THEN ReplacedAlreadyInserted
                               ELSE Ok]_vars

\* C8 witness: a bulk insert replaced an entry by an empty proof set.
C8_Witness ==
    /\ call.op = "insert_with_proof_set"
    /\ call.result = ReplacedAlreadyInserted
    /\ call.proof_set = EmptyMap
    /\ chain_accumulator[call.event] = AccumulatingProof_default

\* C9: for an event that is not completed, add_proof returns
\* Err(ReplacedAlreadyInserted) iff the pending entry already held a proof of
\* proof.pub_id, or a share was supplied and the entry already held a share
\* of proof.pub_id; otherwise it returns Ok.
C9_AddProofReplacedIff ==
    [][(call'.op = "add_proof" /\ call'.event \notin completed_events)
          => LET e == call'.event
                 id == call'.proof.pub_id
                 replaced ==
                     /\ e \in Pending
                     /\ \/ id \in SignersOf(e)
                        \/ (call'.signature # None /\ id \in ShareSignersOf(e))
             IN  call'.result = IF replaced THEN ReplacedAlreadyInserted
                                ELSE Ok]_vars

\* C9 witness: add_proof without a share was flagged as a replacement.
C9_Witness ==
    /\ call.op = "add_proof"
    /\ call.signature = None
    /\ call.result = ReplacedAlreadyInserted

\* C10: idempotent signer contribution.  add_proof by a signer who already
\* has a proof in the pending entry of the event leaves the set of signers
\* of that entry, and so its number of proofs, unchanged.
C10_SameSignerSameSigners ==
    [][(/\ call'.op = "add_proof"
        /\ call'.event \notin completed_events
        /\ call'.event \in Pending
        /\ call'.proof.pub_id \in SignersOf(call'.event))
          => /\ call'.event \in DOMAIN chain_accumulator'
             /\ DOMAIN chain_accumulator'[call'.event].parsec_proofs
                    = SignersOf(call'.event)]_vars

\* C10 witness: a signer contributed again to an event with two signers.
C10_Witness ==
    /\ call.op = "add_proof"
    /\ call.result = ReplacedAlreadyInserted
    /\ call.event \in Pending
    /\ Cardinality(SignersOf(call.event)) = 2

\* C11: when add_proof returns Err(ReplacedAlreadyInserted) the pending
\* entry holds, for that signer, the signature of this call and, if a share
\* was supplied, the share of this call.
C11_NewerContributionRetained ==
    [][(call'.op = "add_proof" /\ call'.result = ReplacedAlreadyInserted)
          => LET id == call'.proof.pub_id
                 entry == chain_accumulator'[call'.event]
             IN  /\ call'.event \in DOMAIN chain_accumulator'
                 /\ id \in DOMAIN entry.parsec_proofs
                 /\ entry.parsec_proofs[id] = call'.proof.sig
                 /\ call'.signature # None
                       => /\ id \in DOMAIN entry.sig_shares
                          /\ entry.sig_shares[id] = Unwrap(call'.signature)]_vars

\* C11 witness: a replacement was flagged for a signer whose entry now holds
\* the second signature value and the second share value.
C11_Witness ==
    /\ call.op = "add_proof"
    /\ call.result = ReplacedAlreadyInserted
    /\ call.proof.sig = "sig_b"
    /\ call.signature = Some("share_b")
    /\ chain_accumulator[call.event].parsec_proofs[call.proof.pub_id] = "sig_b"
    /\ chain_accumulator[call.event].sig_shares[call.proof.pub_id] = "share_b"

\* C12: in every pending entry, every signer with a signature share also has
\* a proof in parsec_proofs.
C12_SharesHaveProofs ==
    \A e \in Pending : ShareSignersOf(e) \subseteq SignersOf(e)

\* C12 witness: a bulk insert replaced the entry of an event while another
\* pending entry holds a share.
C12_Witness ==
    /\ call.op = "insert_with_proof_set"
    /\ call.result = ReplacedAlreadyInserted
    /\ \E e \in Pending : ShareSignersOf(e) # {}

\* C13: poll_event of a pending event removes it from the pending map, adds
\* it to completed_events and returns it with the proof bundle it had;
\* poll_event of an event that is not pending returns None and changes
\* neither the pending map nor completed_events.  Other entries are kept.
C13_PollEventEffect ==
    [][call'.op = "poll_event" =>
          LET e == call'.event
          IN  IF e \in Pending
              THEN /\ call'.result = Some(<<e, chain_accumulator[e]>>)
                   /\ DOMAIN chain_accumulator' = Pending \ {e}
                   /\ \A x \in Pending \ {e} :
                          chain_accumulator'[x] = chain_accumulator[x]
                   /\ completed_events' = completed_events \cup {e}
              ELSE /\ call'.result = None
                   /\ chain_accumulator' = chain_accumulator
                   /\ completed_events' = completed_events]_vars

\* C13 witness: a poll of a completed event returned None while another event
\* is pending.
C13_Witness ==
    /\ call.op = "poll_event"
    /\ call.result = None
    /\ call.event \in completed_events
    /\ Pending # {}

\* C14 as stated: poll_event returns Some only for an event for which a
\* quorum of proofs was reached; every quorum needs at least one proof.
C14_OnlyOnQuorum ==
    (call.op = "poll_event" /\ call.result # None)
        => DOMAIN Unwrap(call.result)[2].parsec_proofs # {}

\* C14 amended: poll_event returns Some exactly when the event is pending,
\* whatever number of proofs its entry holds (the quorum is the caller's
\* decision), and on an accumulator that is not reset at most once per event.
C14_EmitsPendingOnce ==
    [][call'.op = "poll_event" =>
          /\ (call'.result # None) <=> (call'.event \in Pending)
          /\ (call'.result # None) => (call'.event \notin delivered)]_vars

\* C14 witness: poll_event handed out an event that has no proof at all.
C14_Witness ==
    /\ call.op = "poll_event"
    /\ call.result # None
    /\ Unwrap(call.result)[2].parsec_proofs = EmptyMap
    /\ call.event \in delivered

\* C15 as stated: a NetworkEvent that reset_accumulator reconstructs carries
\* a signature only if its payload is of a section-key-signed kind.
C15_SignatureOnlyOnSignedKinds ==
    call.op = "reset_accumulator"
        => \A ne \in call.result.cached_events :
               ne.signature # None
                   => ne.payload \in {"SectionInfo", "AckMessage", "SendAckMessage"}

\* C15 amended: into_network_event builds an event without signature; an
\* event that reset_accumulator reconstructs carries a signature exactly
\* when our_id stored a share for it through add_proof, whatever the kind of
\* its payload.
C15_SignatureIffOwnShare ==
    [][call'.op = "reset_accumulator" =>
          /\ \A e \in AccumulatingEvent :
                 into_network_event(e) = into_network_event_with(e, None)
          /\ \A ne \in call'.result.cached_events :
                 /\ ne.payload \in Pending
                 /\ (ne.signature # None)
                       <=> (call'.our_id \in ShareSignersOf(ne.payload))]_vars

\* C15 witness: a reconstructed OurMerge event carries a signature.
C15_Witness ==
    /\ call.op = "reset_accumulator"
    /\ \E ne \in call.result.cached_events :
           ne.payload = "OurMerge" /\ ne.signature # None

\* C16: into_obs returns Ok for every NetworkEvent: the Add observation of
\* the peer with empty related info for AddElder, the Remove observation of
\* the peer with empty related info for RemoveElder (an attached signature is
\* dropped in both), and for every other payload the OpaquePayload that
\* carries the whole NetworkEvent, payload and signature.
C16_IntoObs ==
    obs_result # None =>
        LET r == Unwrap(obs_result)
            variant == obs_event.payload.variant
        IN  /\ r.result = Ok
            /\ variant = "AddElder" =>
                   r.value = [obs |-> "Add",
                              peer_id |-> Unwrap(obs_event.payload.arg),
                              related_info |-> <<>>]
            /\ variant = "RemoveElder" =>
                   r.value = [obs |-> "Remove",
                              peer_id |-> Unwrap(obs_event.payload.arg),
                              related_info |-> <<>>]
            /\ variant \notin {"AddElder", "RemoveElder"} =>
                   /\ r.value.obs = "OpaquePayload"
                   /\ r.value.event.payload = obs_event.payload
                   /\ r.value.event.signature = obs_event.signature

\* C16 witness: a signed SectionInfo event was converted.
C16_Witness ==
    /\ obs_result # None
    /\ obs_event.payload.variant = "SectionInfo"
    /\ obs_event.signature # None


\* The bootstrap peer of a BootstrappingPeer that has one.
BootstrapPeer(self) == Unwrap(self.bootstrap_connection).conn_info

\* C17: in Bootstrapping and in Joining, handle_timeout with a token that is
\* not the stored one (the token of bootstrap_connection, or join_token), or
\* with no bootstrap_connection at all, returns Stay and changes nothing: no
\* call on the link layer, the timer or the outbox, and every field of the
\* state, join_attempts included, as before.
C17_StaleTokenNoEffect ==
    [][(/\ handled'.handler = "handle_timeout"
        /\ \/ /\ node.state = "BootstrappingPeer"
              /\ \/ node.bootstrap_connection = None
                 \/ Unwrap(node.bootstrap_connection).token # handled'.token
           \/ /\ node.state = "JoiningPeer"
              /\ node.join_token # handled'.token)
       => /\ handled'.transition = Stay
          /\ node' = [node EXCEPT !.log = <<>>]]_vars

\* C17 witness: a joining node that has rescheduled its timer once was handed
\* the token of an earlier timer.
C17_Witness ==
    /\ node.state = "JoiningPeer"
    /\ handled.handler = "handle_timeout"
    /\ handled.token < node.join_token
    /\ node.join_attempts = 1
    /\ node.log = <<>>

\* C18: in Bootstrapping with no bootstrap target, BootstrappedTo(peer) and
\* ConnectedTo(peer) make the peer the bootstrap_connection with the token of
\* a BOOTSTRAP_TIMEOUT timer scheduled in the same step, send it exactly one
\* message, BootstrapRequest(destination), where destination is the
\* relocation destination when relocate details are held and the own name
\* otherwise, and the node stays in Bootstrapping.
C18_AdoptsFirstPeer ==
    [][(/\ node.state = "BootstrappingPeer"
        /\ handled'.handler \in {"handle_bootstrapped_to", "handle_connected_to"}
        /\ node.bootstrap_connection = None)
       => LET destination ==
                  IF node.relocate_details # None
                  THEN Unwrap(node.relocate_details).destination
                  ELSE node.full_id.name
          IN  /\ handled'.transition = Stay
              /\ node'.state = "BootstrappingPeer"
              /\ node'.bootstrap_connection =
                     Some([conn_info |-> handled'.conn_info, token |-> node.timer])
              /\ Calls(node'.log, "schedule") =
                     <<[op |-> "schedule", duration |-> BOOTSTRAP_TIMEOUT,
                        token |-> node.timer]>>
              /\ Calls(node'.log, "send") =
                     <<[op |-> "send", dst |-> handled'.conn_info,
                        msg |-> [type |-> "BootstrapRequest",
                                 destination |-> destination]]>>]_vars

\* C18 witness: a relocating node adopted the peer of a ConnectedTo event and
\* asked it for the relocation destination, which is not its own name.
C18_Witness ==
    /\ node.state = "BootstrappingPeer"
    /\ handled.handler = "handle_connected_to"
    /\ node.relocate_details # None
    /\ Unwrap(node.relocate_details).destination # node.full_id.name
    /\ node.bootstrap_connection # None
    /\ BootstrapPeer(node) = handled.conn_info
    /\ Calls(node.log, "send") =
           <<[op |-> "send", dst |-> handled.conn_info,
              msg |-> [type |-> "BootstrapRequest",
                       destination |-> Unwrap(node.relocate_details).destination]]>>

\* C19: in Bootstrapping with a bootstrap target, BootstrappedTo(peer) and
\* ConnectedTo(peer) for a different peer drop the new connection: exactly
\* one disconnect_from, for the new peer, no message sent, and
\* bootstrap_connection (peer and token) as before.
C19_NewConnectionDropped ==
    [][(/\ node.state = "BootstrappingPeer"
        /\ handled'.handler \in {"handle_bootstrapped_to", "handle_connected_to"}
        /\ node.bootstrap_connection # None
        /\ BootstrapPeer(node).peer_addr # handled'.conn_info.peer_addr)
       => /\ Calls(node'.log, "disconnect_from") =
                 <<[op |-> "disconnect_from",
                    peer_addr |-> handled'.conn_info.peer_addr]>>
          /\ Calls(node'.log, "send") = <<>>
          /\ node'.bootstrap_connection = node.bootstrap_connection]_vars

\* C20: in Bootstrapping, ConnectionFailure(peer) removes peer from
\* nodes_to_await, emits no external event and stays in Bootstrapping; when
\* peer is the bootstrap peer, the node disconnects from it, clears
\* bootstrap_connection, and calls bootstrap() exactly when nodes_to_await is
\* then empty.
C20_ConnectionFailure ==
    [][(/\ node.state = "BootstrappingPeer"
        /\ handled'.handler = "handle_connection_failure")
       => /\ node'.state = "BootstrappingPeer"
          /\ handled'.transition = Stay
          /\ node'.nodes_to_await = node.nodes_to_await \ {handled'.peer_addr}
          /\ Calls(node'.log, "send_event") = <<>>
          /\ (/\ node.bootstrap_connection # None
              /\ BootstrapPeer(node).peer_addr = handled'.peer_addr)
             => /\ Calls(node'.log, "disconnect_from") =
                       <<[op |-> "disconnect_from",
                          peer_addr |-> handled'.peer_addr]>>
                /\ node'.bootstrap_connection = None
                /\ Calls(node'.log, "bootstrap") =
                       IF node'.nodes_to_await = {}
                       THEN <<[op |-> "bootstrap"]>>
                       ELSE <<>>]_vars

\* C20 witness: the bootstrap peer was lost while another contact is still
\* awaited: the node disconnected and waits, without a new bootstrap.
C20_Witness ==
    /\ node.state = "BootstrappingPeer"
    /\ handled.handler = "handle_connection_failure"
    /\ node.nodes_to_await # {}
    /\ node.bootstrap_connection = None
    /\ node.log = <<[op |-> "disconnect_from", peer_addr |-> handled.peer_addr]>>

\* A BootstrappingPeer handler is given the token of its bootstrap connection.
ActiveTokenFires ==
    /\ node.state = "BootstrappingPeer"
    /\ handled'.handler = "handle_timeout"
    /\ node.bootstrap_connection # None
    /\ Unwrap(node.bootstrap_connection).token = handled'.token

\* C21 as stated: when the timer fires with the token of the bootstrap
\* connection, the node disconnects from the bootstrap peer and asks the link
\* layer to bootstrap again.
C21_TimeoutRestartsBootstrap ==
    [][ActiveTokenFires
       => /\ Calls(node'.log, "disconnect_from") =
                 <<[op |-> "disconnect_from",
                    peer_addr |-> BootstrapPeer(node).peer_addr]>>
          /\ Calls(node'.log, "bootstrap") = <<[op |-> "bootstrap"]>>]_vars

\* C21 amended: when the timer fires with the token of the bootstrap
\* connection, the node disconnects from the bootstrap peer, clears
\* bootstrap_connection and stays in Bootstrapping; it asks the link layer to
\* bootstrap again exactly when nodes_to_await is empty, and waits otherwise.
C21_TimeoutDisconnects ==
    [][ActiveTokenFires
       => /\ handled'.transition = Stay
          /\ node'.state = "BootstrappingPeer"
          /\ Calls(node'.log, "disconnect_from") =
                 <<[op |-> "disconnect_from",
                    peer_addr |-> BootstrapPeer(node).peer_addr]>>
          /\ node'.bootstrap_connection = None
          /\ Calls(node'.log, "bootstrap") =
                 IF node.nodes_to_await = {}
                 THEN <<[op |-> "bootstrap"]>>
                 ELSE <<>>]_vars

\* C21 witness: the bootstrap timer fired while a contact was still awaited:
\* the node disconnected from its bootstrap peer and did not bootstrap again.
C21_Witness ==
    /\ node.state = "BootstrappingPeer"
    /\ handled.handler = "handle_timeout"
    /\ node.nodes_to_await # {}
    /\ node.bootstrap_connection = None
    /\ Len(node.log) = 1
    /\ node.log[1].op = "disconnect_from"

\* The addresses of a Vec<ConnectionInfo>.
Addrs(conn_infos) == {conn_infos[i].peer_addr : i \in DOMAIN conn_infos}

\* C22: on BootstrapResponse::Rebootstrap(new_conn_infos) a bootstrapping
\* node disconnects from its bootstrap peer (if it has one) and clears
\* bootstrap_connection, sets nodes_to_await to the addresses of
\* new_conn_infos, asks the link layer to connect to each of them in turn,
\* stays in Bootstrapping and calls no bootstrap(); and no handler of the
\* Bootstrapping state calls bootstrap() while an address is in nodes_to_await.
C22_RebootstrapResponse ==
    [][node.state = "BootstrappingPeer"
       => /\ (/\ handled'.handler = "handle_direct_message"
              /\ handled'.msg.type = "BootstrapResponse"
              /\ handled'.msg.response = "Rebootstrap")
             => /\ handled'.transition = Stay
                /\ node'.state = "BootstrappingPeer"
                /\ Calls(node'.log, "disconnect_from") =
                       IF node.bootstrap_connection # None
                       THEN <<[op |-> "disconnect_from",
                               peer_addr |-> BootstrapPeer(node).peer_addr]>>
                       ELSE <<>>
                /\ node'.bootstrap_connection = None
                /\ node'.nodes_to_await = Addrs(handled'.msg.conn_infos)
                /\ Calls(node'.log, "connect_to") =
                       [i \in DOMAIN handled'.msg.conn_infos |->
                           [op |-> "connect_to",
                            node_info |-> handled'.msg.conn_infos[i]]]
                /\ Calls(node'.log, "bootstrap") = <<>>
          /\ (/\ node'.state = "BootstrappingPeer"
              /\ Calls(node'.log, "bootstrap") # <<>>)
             => node'.nodes_to_await = {}]_vars

\* C22 witness: a node with a bootstrap peer was redirected to two contacts.
C22_Witness ==
    /\ node.state = "BootstrappingPeer"
    /\ handled.handler = "handle_direct_message"
    /\ handled.msg.type = "BootstrapResponse"
    /\ handled.msg.response = "Rebootstrap"
    /\ Cardinality(node.nodes_to_await) = Cardinality(SocketAddr)
    /\ Calls(node.log, "disconnect_from") # <<>>
    /\ Len(Calls(node.log, "connect_to")) = Len(handled.msg.conn_infos)

\* C23: in Bootstrapping, BootstrapFailure sends exactly one event,
\* Terminated, to the outbox, calls nothing else and returns Terminate,
\* whatever bootstrap_connection and nodes_to_await hold.
C23_BootstrapFailureTerminates ==
    [][(/\ node.state = "BootstrappingPeer"
        /\ handled'.handler = "handle_bootstrap_failure")
       => /\ handled'.transition = Terminate
          /\ node'.state = "Terminated"
          /\ node'.log = <<[op |-> "send_event", event |-> "Terminated"]>>]_vars

\* C23 witness: a node terminated on BootstrapFailure.
C23_Witness ==
    /\ node.state = "Terminated"
    /\ handled.handler = "handle_bootstrap_failure"
    /\ Calls(node.log, "send_event") =
           <<[op |-> "send_event", event |-> "Terminated"]>>

\* A bootstrapping node is handed BootstrapResponse::Join.
JoinArrives ==
    /\ node.state = "BootstrappingPeer"
    /\ handled'.handler = "handle_direct_message"
    /\ IsJoin(handled'.msg)

\* The JoinRequest messages to the contacts of a joining node, in order.
JoinRequests(self) ==
    [i \in DOMAIN self.conn_infos |->
        [op |-> "send", dst |-> self.conn_infos[i],
         msg |-> [type |-> "JoinRequest", payload |-> self.relocate_payload]]]

\* C24 as stated: on BootstrapResponse::Join(prefix, conn_infos) the node
\* moves to Joining with exactly the supplied contacts and an identity whose
\* name lies in prefix, replaced if and only if the name did not match.
C24_JoinEntersJoining ==
    [][JoinArrives
       => /\ node'.state = "JoiningPeer"
          /\ node'.conn_infos = handled'.msg.conn_infos
          /\ Prefix_matches(handled'.msg.prefix, node'.full_id.name)
          /\ (node'.full_id # node.full_id)
                 <=> ~Prefix_matches(handled'.msg.prefix, node.full_id.name)]_vars

\* C24 amended: on BootstrapResponse::Join(prefix, conn_infos) the identity
\* is replaced by a new one inside the prefix if and only if the current name
\* does not match the prefix, so that the name lies in prefix afterwards; the
\* node then moves to Joining with exactly the supplied contacts, unless it
\* holds relocate details and RelocatePayload::new fails: then the handler
\* returns the error and the node stays in Bootstrapping.
C24_JoinEntersJoiningUnlessError ==
    [][JoinArrives
       => /\ Prefix_matches(handled'.msg.prefix, node'.full_id.name)
          /\ (node'.full_id # node.full_id)
                 <=> ~Prefix_matches(handled'.msg.prefix, node.full_id.name)
          /\ handled'.transition.t \in {"IntoJoining", "Err"}
          /\ node.relocate_details = None => handled'.transition.t = "IntoJoining"
          /\ handled'.transition.t = "IntoJoining"
                 => /\ node'.state = "JoiningPeer"
                    /\ node'.conn_infos = handled'.msg.conn_infos
          /\ handled'.transition.t = "Err" => node'.state = "BootstrappingPeer"]_vars

\* C24 witness: a node whose name was outside the prefix joined two contacts
\* under a new identity.
C24_Witness ==
    /\ node.state = "JoiningPeer"
    /\ handled.handler = "handle_direct_message"
    /\ handled.msg.prefix = node.full_id.name
    /\ node.full_id.key > 1
    /\ node.conn_infos = handled.msg.conn_infos
    /\ Len(node.conn_infos) > 1

\* C25: on a successful Join the IntoJoining transition carries a
\* RelocatePayload if and only if the node held relocate details, built from
\* those details, the new identity (regenerated or not) and the identity held
\* before; the joining node stores it, never changes it, and every
\* JoinRequest it sends carries it (None for a normal join).
C25_RelocatePayload ==
    [][/\ (JoinArrives /\ handled'.transition.t = "IntoJoining")
          => /\ handled'.transition.relocate_payload =
                    IF node.relocate_details # None
                    THEN Some(RelocatePayload_new(Unwrap(node.relocate_details),
                                                  node'.full_id, node.full_id))
                    ELSE None
             /\ node'.relocate_payload = handled'.transition.relocate_payload
       /\ (node.state = "JoiningPeer" /\ node'.state = "JoiningPeer")
          => node'.relocate_payload = node.relocate_payload
       /\ node'.state = "JoiningPeer"
          => \A i \in DOMAIN node'.log :
                 node'.log[i].op = "send"
                     => /\ node'.log[i].msg.type = "JoinRequest"
                        /\ node'.log[i].msg.payload = node'.relocate_payload]_vars

\* C25 witness: a relocated node that took a new identity resent its
\* JoinRequest, with the payload that binds the new identity to the old one.
C25_Witness ==
    /\ node.state = "JoiningPeer"
    /\ handled.handler = "handle_timeout"
    /\ node.join_attempts = 1
    /\ node.relocate_payload # None
    /\ Unwrap(node.relocate_payload).new_id = node.full_id
    /\ Unwrap(node.relocate_payload).old_id # node.full_id
    /\ Calls(node.log, "send") # <<>>
    /\ Calls(node.log, "send") = JoinRequests(node)

\* C26: on entry to Joining join_attempts is 0, exactly one timer was
\* scheduled, for JOIN_TIMEOUT, its token is join_token, and one JoinRequest
\* was sent for every entry of conn_infos, in order.
C26_JoiningEntry ==
    [][(node.state = "BootstrappingPeer" /\ node'.state = "JoiningPeer")
       => /\ node'.join_attempts = 0
          /\ Calls(node'.log, "schedule") =
                 <<[op |-> "schedule", duration |-> JOIN_TIMEOUT,
                    token |-> node'.join_token]>>
          /\ node'.join_token = node.timer
          /\ Calls(node'.log, "send") = JoinRequests(node')]_vars

\* C26 witness: a node has just entered Joining with two contacts and has
\* sent each of them a JoinRequest.
C26_Witness ==
    /\ node.state = "JoiningPeer"
    /\ handled.handler = "handle_direct_message"
    /\ node.join_attempts = 0
    /\ Len(node.conn_infos) = 2
    /\ Len(Calls(node.log, "send")) = 2
    /\ Len(Calls(node.log, "schedule")) = 1

\* C27: in Joining, a firing of the current join_token increments
\* join_attempts; below MAX_JOIN_ATTEMPTS the node schedules a JOIN_TIMEOUT
\* timer, stores its token as join_token, resends JoinRequest to every
\* contact and stays; on the firing that reaches MAX_JOIN_ATTEMPTS it asks
\* the link layer to disconnect from every peer of its peer map, once each,
\* and becomes a BootstrappingPeer with an empty peer map and a new identity.
C27_JoinTimeout ==
    [][(/\ node.state = "JoiningPeer"
        /\ handled'.handler = "handle_timeout"
        /\ handled'.token = node.join_token)
       => IF node.join_attempts + 1 < MAX_JOIN_ATTEMPTS
          THEN /\ handled'.transition = Stay
               /\ node'.state = "JoiningPeer"
               /\ node'.join_attempts = node.join_attempts + 1
               /\ Calls(node'.log, "schedule") =
                      <<[op |-> "schedule", duration |-> JOIN_TIMEOUT,
                         token |-> node.timer]>>
               /\ node'.join_token = node.timer
               /\ Calls(node'.log, "send") = JoinRequests(node)
               /\ Calls(node'.log, "disconnect_from") = <<>>
          ELSE /\ node.join_attempts + 1 = MAX_JOIN_ATTEMPTS
               /\ handled'.transition = Rebootstrap
               /\ node'.state = "BootstrappingPeer"
               /\ LET d == Calls(node'.log, "disconnect_from")
                  IN  /\ {d[i].peer_addr : i \in DOMAIN d} =
                             {c.peer_addr : c \in node.peer_map}
                      /\ Len(d) = Cardinality(node.peer_map)
               /\ node'.peer_map = {}
               /\ node'.full_id # node.full_id
               /\ Calls(node'.log, "send") = <<>>]_vars

\* C27 witness: a joining node with two peers in its peer map gave up on the
\* third firing and bootstraps again under a new identity.
C27_Witness ==
    /\ node.state = "BootstrappingPeer"
    /\ handled.handler = "handle_timeout"
    /\ handled.transition = Rebootstrap
    /\ Len(Calls(node.log, "disconnect_from")) = Cardinality(SocketAddr)
    /\ node.full_id.key > 1

\* A joining node is handed a hop message.
HopArrives ==
    /\ node.state = "JoiningPeer"
    /\ handled'.handler = "handle_hop_message"

\* The elements of a backlog.
Range(seq) == {seq[i] : i \in DOMAIN seq}

\* C28 as stated: in Joining, a hop message whose destination does not name
\* this node is queued in msg_backlog.
C28_OthersQueued ==
    [][(HopArrives /\ ~JoiningPeer_in_authority(node, handled'.msg.dst))
       => /\ node'.state = "JoiningPeer"
          /\ handled'.msg \in Range(node'.msg_backlog)]_vars

\* A joining node is handed, for the first time, a NodeApproval from a
\* section addressed to it as a single node.
ApprovalArrives ==
    /\ HopArrives
    /\ handled'.msg \notin node.routing_msg_filter
    /\ JoiningPeer_in_authority(node, handled'.msg.dst)
    /\ IsNodeApproval(handled'.msg)

\* The node became an Adult with what the joining node held.
BecameAdult ==
    /\ handled'.transition = IntoAdult("gen_pfx_info")
    /\ node'.state = "Adult"
    /\ node'.msg_backlog = node.msg_backlog
    /\ node'.peer_map = node.peer_map
    /\ node'.routing_msg_filter = node.routing_msg_filter \cup {handled'.msg}
    /\ node'.full_id = node.full_id

\* A hop message that the filter has already seen is ignored.
SeenIgnored ==
    (HopArrives /\ handled'.msg \in node.routing_msg_filter)
        => /\ handled'.transition = Stay
           /\ node' = [node EXCEPT !.log = <<>>]

\* C29 as stated: the first sighting of a NodeApproval addressed to this node
\* yields IntoAdult, the Adult state receives msg_backlog, peer map, filter
\* and identity of the joining node, and a message the filter has already
\* seen is ignored.
C29_ApprovalMakesAdult ==
    [][(ApprovalArrives => BecameAdult) /\ SeenIgnored]_vars

\* C29 amended: the first sighting of a NodeApproval addressed to this node
\* that passes the integrity check yields IntoAdult, with msg_backlog, peer
\* map, identity and the filter (which now remembers the approval) handed to
\* the Adult state; when the integrity check fails the handler returns the
\* error and the node stays in Joining; a message the filter has already seen
\* is ignored.
C29_ValidApprovalMakesAdult ==
    [][/\ (ApprovalArrives /\ handled'.integrity_ok) => BecameAdult
       /\ (ApprovalArrives /\ ~handled'.integrity_ok)
             => /\ handled'.transition.t = "Err"
                /\ node'.state = "JoiningPeer"
       /\ SeenIgnored]_vars

\* C29 witness: a node became an Adult and took a backlogged message along.
C29_Witness ==
    /\ node.state = "Adult"
    /\ handled.handler = "handle_hop_message"
    /\ handled.integrity_ok
    /\ node.msg_backlog # <<>>
    /\ handled.msg \in node.routing_msg_filter

\* C30 as stated: whenever a node enters Bootstrapping from Joining (join
\* attempts exhausted) or from Adult (relocation), the Bootstrapping state
\* holds an identity different from the one held before.
C30_ReentryChangesIdentity ==
    [][(node.state \in {"JoiningPeer", "Adult"} /\ node'.state = "BootstrappingPeer")
       => node'.full_id # node.full_id]_vars

\* C30 amended: a node that enters Bootstrapping from Joining after its join
\* attempts are exhausted holds a new identity and no relocate details; a
\* node that enters Bootstrapping by relocation holds the identity it had
\* and the relocate details.
C30_RebootstrapChangesIdentity ==
    [][/\ (node.state = "JoiningPeer" /\ node'.state = "BootstrappingPeer")
          => /\ node'.full_id # node.full_id
             /\ node'.relocate_details = None
       /\ (node.state = "Adult" /\ node'.state = "BootstrappingPeer")
          => /\ node'.full_id = node.full_id
             /\ node'.relocate_details # None]_vars

\* C30 witness: an approved node was relocated and bootstraps again.
C30_Witness ==
    /\ node.state = "BootstrappingPeer"
    /\ handled.handler = "relocate"
    /\ node.relocate_details # None
    /\ node.timer > 1
    /\ node.bootstrap_connection # None

\* An event neither state handles: a hop message or a direct message that
\* is not a BootstrapResponse in Bootstrapping, a direct message in Joining.
UnhandledArrives ==
    \/ /\ node.state = "BootstrappingPeer"
       /\ handled'.handler = "handle_hop_message"
    \/ /\ node.state = "BootstrappingPeer"
       /\ handled'.handler = "handle_direct_message"
       /\ handled'.msg.type # "BootstrapResponse"
    \/ /\ node.state = "JoiningPeer"
       /\ handled'.handler = "handle_direct_message"

\* C31: in Bootstrapping every hop message and every direct message other
\* than a BootstrapResponse, and in Joining every direct message, returns
\* Stay, makes no call on the link layer, the timer or the outbox, and leaves
\* every field of the state as it was.
C31_UnhandledIsNoOp ==
    [][UnhandledArrives
       => /\ handled'.transition = Stay
          /\ node'.log = <<>>
          /\ node' = Running]_vars

\* C31 witness: a joining node that already retried once was handed a Join
\* response and ignored it.
C31_Witness ==
    /\ node.state = "JoiningPeer"
    /\ handled.handler = "handle_direct_message"
    /\ IsJoin(handled.msg)
    /\ node.log = <<>>
    /\ node.join_attempts > 0
    /\ node.conn_infos # <<>>

\* C32: whenever a handler of a Bootstrapping node asks the link layer to
\* bootstrap again, the node had an active bootstrap peer, a disconnect_from
\* for that peer was issued before the bootstrap() call, nothing was done
\* after it, and bootstrap_connection is None.
C32_DisconnectBeforeRebootstrap ==
    [][(/\ node.state = "BootstrappingPeer"
        /\ node'.state = "BootstrappingPeer"
        /\ Calls(node'.log, "bootstrap") # <<>>)
       => /\ node.bootstrap_connection # None
          /\ node'.bootstrap_connection = None
          /\ node'.log =
                 <<[op |-> "disconnect_from",
                    peer_addr |-> BootstrapPeer(node).peer_addr],
                   [op |-> "bootstrap"]>>]_vars

\* C32 witness: the proxy of a node that waits for nobody else was lost and
\* the node asked for a new bootstrap after dropping it.
C32_Witness ==
    /\ node.state = "BootstrappingPeer"
    /\ handled.handler = "handle_connection_failure"
    /\ node.bootstrap_connection = None
    /\ Len(node.log) = 2
    /\ node.log[1] = [op |-> "disconnect_from", peer_addr |-> handled.peer_addr]
    /\ node.log[2] = [op |-> "bootstrap"]
    /\ node.timer > 0

\* A Bootstrapping node has a wait outstanding: an active
\* bootstrap_connection (with its timer), a non-empty nodes_to_await, or a
\* bootstrap the link layer has not answered.
Waits(self, requested) ==
    \/ self.bootstrap_connection # None
    \/ self.nodes_to_await # {}
    \/ requested

\* C33 as stated: a Bootstrapping node never stalls: a node that has a wait
\* outstanding and stays in Bootstrapping has a wait outstanding after every
\* event, also after a Rebootstrap response with an empty contact list and
\* after the ConnectionFailure of the last contact it awaited.
C33_NeverStalls ==
    [][(/\ node.state = "BootstrappingPeer"
        /\ Waits(node, bootstrap_requested)
        /\ node'.state = "BootstrappingPeer")
       => Waits(node', bootstrap_requested')]_vars

\* C34: if the scheduled join token eventually fires, a Joining node that is
\* never handed a NodeApproval always leaves Joining for Bootstrapping, with
\* or without contacts; and a timeout returns
\* Rebootstrap exactly when it is the MAX_JOIN_ATTEMPTS-th firing of a join
\* token of this episode (join_attempts counts the earlier ones).
C34_JoiningEnds ==
    /\ (node.state = "JoiningPeer") ~> (node.state = "BootstrappingPeer")
    /\ [][(node.state = "JoiningPeer" /\ handled'.handler = "handle_timeout")
          => /\ (handled'.transition = Rebootstrap)
                    <=> /\ handled'.token = node.join_token
                        /\ node.join_attempts = MAX_JOIN_ATTEMPTS - 1
             /\ (handled'.transition = Stay /\ handled'.token = node.join_token)
                    => node'.join_attempts = node.join_attempts + 1
             /\ handled'.token # node.join_token
                    => node'.join_attempts = node.join_attempts]_vars

\* C34 witness: the third join token (0, 1, 2) of a joining node with an
\* empty peer map fired and the node went back to Bootstrapping.
C34_Witness ==
    /\ node.state = "BootstrappingPeer"
    /\ handled.handler = "handle_timeout"
    /\ handled.transition = Rebootstrap
    /\ handled.token = MAX_JOIN_ATTEMPTS - 1
    /\ node.timer = MAX_JOIN_ATTEMPTS
    /\ node.peer_map = {}
    /\ node.log = <<[op |-> "bootstrap"]>>

\* The number of entries of a Vec<ConnectionInfo> that are the contact c.
Entries(conn_infos, c) == Cardinality({i \in DOMAIN conn_infos : conn_infos[i] = c})

\* C35 as stated: in every Joining state join_attempts is in 0..=2, and no
\* contact has been sent more than MAX_JOIN_ATTEMPTS JoinRequests since the
\* node entered Joining.
C35_AtMostThreeRequests ==
    node.state = "JoiningPeer"
        => /\ node.join_attempts \in 0..(MAX_JOIN_ATTEMPTS - 1)
           /\ \A c \in ConnectionInfo :
                  join_requests_sent[c] <= MAX_JOIN_ATTEMPTS

\* C35 amended: in every Joining state join_attempts is in 0..=2, and each
\* contact has been sent, since the node entered Joining, one JoinRequest for
\* each of its entries in conn_infos on entry and one more for each entry on
\* every counted timeout: (join_attempts + 1) times the number of its
\* entries, which is at most MAX_JOIN_ATTEMPTS for each entry.
C35_AtMostThreeRequestsPerEntry ==
    node.state = "JoiningPeer"
        => /\ node.join_attempts \in 0..(MAX_JOIN_ATTEMPTS - 1)
           /\ \A c \in ConnectionInfo :
                  /\ join_requests_sent[c] =
                         (node.join_attempts + 1) * Entries(node.conn_infos, c)
                  /\ join_requests_sent[c] <=
                         MAX_JOIN_ATTEMPTS * Entries(node.conn_infos, c)

\* C35 witness: a joining node with two different contacts has used its two
\* retries and has sent each contact three JoinRequests.
C35_Witness ==
    /\ node.state = "JoiningPeer"
    /\ node.join_attempts = MAX_JOIN_ATTEMPTS - 1
    /\ Len(node.conn_infos) = 2
    /\ node.conn_infos[1] # node.conn_infos[2]
    /\ \A i \in DOMAIN node.conn_infos :
           join_requests_sent[node.conn_infos[i]] = MAX_JOIN_ATTEMPTS

\* C36: the "Duplicate insert in completed events" branch of poll_event is
\* never taken: no call of poll_event finds the event in the pending map
\* while it is already in completed_events.
C36_NoDuplicateInsert ==
    call.op = "poll_event" => call.duplicate = FALSE

\* C36 witness: after a reset that followed the completion of some event,
\* poll_event found an event in the pending map and completed it.
C36_Witness ==
    /\ call.op = "poll_event"
    /\ call.result # None
    /\ call.duplicate = FALSE
    /\ completed_events = {call.event}
    /\ everCompleted # completed_events

\* C37 as stated: a Bootstrapping node moves to Joining only on a Join
\* response of its active bootstrap peer: a Join response handled while
\* bootstrap_connection is None yields no IntoJoining transition and leaves
\* the identity of the node as it was.
C37_JoinOnlyFromActivePeer ==
    [][(JoinArrives /\ node.bootstrap_connection = None)
       => /\ handled'.transition.t # "IntoJoining"
          /\ node'.state = "BootstrappingPeer"
          /\ node'.full_id = node.full_id]_vars

\* C38 as stated: a relocating node (its JoinRequests carry a RelocatePayload)
\* that exhausts its join attempts returns to a Bootstrapping state that
\* still holds the relocate details of that payload.
C38_RelocationKept ==
    [][(/\ node.state = "JoiningPeer"
        /\ node.relocate_payload # None
        /\ handled'.transition = Rebootstrap)
       => /\ node'.state = "BootstrappingPeer"
          /\ node'.relocate_details =
                 Some(Unwrap(node.relocate_payload).details)]_vars

\* The disconnect_from calls for the contacts after the first whose
\* connection info differs from the first, in order.
RECURSIVE DropOthers(_, _)
DropOthers(first, rest) ==
    IF rest = <<>> THEN <<>>
    ELSE (IF Head(rest) # first
          THEN <<[op |-> "disconnect_from", peer_addr |-> Head(rest).peer_addr]>>
          ELSE <<>>) \o DropOthers(first, Tail(rest))

\* A node built by BootstrappingPeer::relocate from a non-empty contact list.
Relocated ==
    /\ node.state = "BootstrappingPeer"
    /\ handled.handler = "relocate"
    /\ handled.conn_infos # <<>>

\* C39: BootstrappingPeer::relocate with a non-empty conn_infos adopts the
\* first contact only: it schedules BOOTSTRAP_TIMEOUT and sends one
\* BootstrapRequest, to the first contact, with the relocation destination;
\* it calls disconnect_from for every later contact whose connection info
\* differs from the first; nodes_to_await is empty.  When that proxy is then
\* lost or its token fires, the node drops it and asks the link layer to
\* bootstrap.
C39_RelocateAdoptsFirst ==
    /\ [](Relocated
          => LET first == handled.conn_infos[1]
             IN  /\ node.bootstrap_connection # None
                 /\ BootstrapPeer(node) = first
                 /\ node.nodes_to_await = {}
                 /\ node.relocate_details # None
                 /\ node.peer_map = {first}
                 /\ node.log =
                        <<[op |-> "schedule", duration |-> BOOTSTRAP_TIMEOUT,
                           token |-> Unwrap(node.bootstrap_connection).token],
                          [op |-> "send", dst |-> first,
                           msg |-> [type |-> "BootstrapRequest",
                                    destination |->
                                        Unwrap(node.relocate_details).destination]]>>
                        \o DropOthers(first, Tail(handled.conn_infos)))
    /\ [][(/\ Relocated
           /\ \/ /\ handled'.handler = "handle_timeout"
                 /\ handled'.token = Unwrap(node.bootstrap_connection).token
              \/ /\ handled'.handler = "handle_connection_failure"
                 /\ handled'.peer_addr = BootstrapPeer(node).peer_addr)
          => /\ node'.bootstrap_connection = None
             /\ node'.log =
                    <<[op |-> "disconnect_from",
                       peer_addr |-> BootstrapPeer(node).peer_addr],
                      [op |-> "bootstrap"]>>]_vars

\* C39 witness: a node was relocated with two different contacts, asked the
\* first to bootstrap it towards a destination that is not its own name, and
\* dropped the second.
C39_Witness ==
    /\ Relocated
    /\ Len(handled.conn_infos) = 2
    /\ handled.conn_infos[1] # handled.conn_infos[2]
    /\ Len(node.log) = 3
    /\ node.log[2].msg.destination # node.full_id.name
    /\ node.log[3] = [op |-> "disconnect_from",
                      peer_addr |-> handled.conn_infos[2].peer_addr]

\* C40 as stated: when join_section fails (RelocatePayload::new returns an
\* error) the Bootstrapping state is as it was before the Join response: the
\* identity is unchanged and the relocate details are still held.
C40_FailedJoinLeavesState ==
    [][(JoinArrives /\ handled'.transition.t = "Err")
       => /\ node'.state = "BootstrappingPeer"
          /\ node'.full_id = node.full_id
          /\ node'.relocate_details = node.relocate_details]_vars

=============================================================================
